---- MODULE Spec2Model ----
(***************************************************************************)
(* State-machine model of the safety arbitration core of                   *)
(* vison+robot_arm_project.py: the supervisor (main), the Perception       *)
(* Worker (vision_process / vision_process_simulate), the Motion Worker    *)
(* (robot_process / robot_process_simulate) and the Status Worker          *)
(* (monitor_process), which share multiprocessing Value cells and the two  *)
(* Events stop_event and camera_ready.                                     *)
(*                                                                         *)
(* Distances are integers in centimetres: 0.20 m is 20, 999.0 m is 99900.  *)
(* Velocities are integers; the slowdown factor 0.7 is applied as 7/10.    *)
(***************************************************************************)
EXTENDS Integers, FiniteSets, Sequences, TLC

\* ------------------------------------------------------------ constants
SAFETY_DISTANCE_M == 20
SAFETY_CLEAR_DISTANCE_M == 25
NO_HAND_DISTANCE == 99900
MONITOR_DIST_LIMIT == 10000
VEL == 50
DRAW_VEL == 20
SLOWDOWN_TENTHS == 7
SLOWDOWN_ENABLED == TRUE
WARMUP_CALLS == 30
NUMBER_OF_TURNS == 5
POINTS_PER_TURN == 60
ARUCO_MARKER_ID == 0
LOG_CAP == 100
LOG_REPLY == 20
LOGS_PAGE == 50

\* ------------------------------------------------------------ bounds
\* Number of trajectory segments explored (the code runs
\* NUMBER_OF_TURNS * POINTS_PER_TURN of them, all through the same loop body).
MaxSegments == 2
\* Number of warm-up frame waits explored (the code makes WARMUP_CALLS).
MaxWarmup == 2
\* log entries kept, at most (the program keeps LOG_CAP)
MaxLog == 2

total == IF NUMBER_OF_TURNS * POINTS_PER_TURN < MaxSegments
         THEN NUMBER_OF_TURNS * POINTS_PER_TURN ELSE MaxSegments
warmupCalls == IF WARMUP_CALLS < MaxWarmup THEN WARMUP_CALLS ELSE MaxWarmup

\* Distances a frame may yield: both thresholds and the value just below each.
Dists == {SAFETY_DISTANCE_M - 1, SAFETY_DISTANCE_M,
          SAFETY_CLEAR_DISTANCE_M - 1, SAFETY_CLEAR_DISTANCE_M}
INF == NO_HAND_DISTANCE + 1
PenUVs == {<<>>, <<600, 380>>}

\* Marker centres a frame may show (pixel coordinates on a coarse grid): four
\* in a row, the corners of a square, and a point inside the triangle of
\* three others.
MarkerPoints == << <<0, 0>>, <<2, 0>>, <<4, 0>>, <<6, 0>>,
                  <<0, 4>>, <<4, 4>>, <<2, 2>> >>
OTHER_MARKER_ID == ARUCO_MARKER_ID + 1

\* a detected marker: its id and the centre of its corners
Marker(id, center) == [id |-> id, center |-> center]

\* a frame's detection showing the points of the given indices, all with the
\* configured id
Targets(idx) == [k \in DOMAIN idx |-> Marker(ARUCO_MARKER_ID, MarkerPoints[idx[k]])]

Reverse(seq) == [k \in DOMAIN seq |-> seq[Len(seq) + 1 - k]]

\* every choice of four distinct centres in index order, and the four in a
\* row reported from right to left
FourMarkerFrames ==
    LET N == Len(MarkerPoints)
        Idx == {idx \in [1..4 -> 1..N] : \A k \in 1..3 : idx[k] < idx[k + 1]}
    IN  {Targets(idx) : idx \in Idx} \cup {Reverse(Targets(<<1, 2, 3, 4>>))}

\* The square of markers of the sessions that are not about the zone, in the
\* order the detector happens to report them.
SquareMarkers == Targets(<<6, 1, 5, 3>>)
PalmIn == <<2, 2>>
PalmOut == <<7, 2>>
PalmPoints == {PalmIn, PalmOut, <<4, 2>>, <<4, 4>>}

\* frames that do not show exactly four markers of the configured id: none,
\* three, five, and three next to one of another id
OtherFrames ==
    { <<>>, Targets(<<1, 3, 6>>), Targets(<<1, 3, 6, 5, 7>>),
      Append(Targets(<<1, 3, 6>>), Marker(OTHER_MARKER_ID, MarkerPoints[5])) }

\* four markers of the configured id next to one of another id
MixedFrame ==
    <<Marker(OTHER_MARKER_ID, MarkerPoints[7])>> \o Targets(<<1, 3, 6, 5>>)

\* the square of four markers with the other id, the configured id absent
OtherSquare ==
    [k \in 1..4 |-> Marker(OTHER_MARKER_ID, MarkerPoints[<<1, 3, 6, 5>>[k]])]

MarkerFrames ==
    FourMarkerFrames \cup OtherFrames \cup {MixedFrame, SquareMarkers}

\* the marker detections of a session, by the name of its layout
MarkerFramesOf(layout) ==
    CASE layout = "none" -> {<<>>}
      [] layout = "square" -> {SquareMarkers}
      [] layout = "other" -> {OtherSquare, MixedFrame}
      [] layout = "any" -> MarkerFrames

\* Options of main that the model carries: --no-slowdown, and --marker-id with
\* the value OTHER_MARKER_ID.
Options == {"--no-slowdown", "--marker-id"}

\* The clients of the socket channel: client 1 sends commands, client 2 only
\* listens.
Clients == {1, 2}

\* Sessions: the observations the camera and the detectors can deliver, and
\* what the clients of the socket channel do.
\*   intrinsics  the driver reports its intrinsics (else _set_defaults runs)
\*   markers     layout of the markers in view (see MarkerFramesOf)
\*   pens        pen detections a frame can yield (<<>>: none)
\*   dists       nearest-fingertip distances a frame can yield (INF: none)
\*   palms       positions of the palm landmark a frame can yield
\*   draws       outcomes of the simulated zone draw (random.random() < 0.5)
\*   clients     the clients that connect
\*   inputs      what client 1 sends (see InputsOf)
\* and the options on the command line of main:
\*   argv        the options given (see Options)
Envs == [intrinsics : BOOLEAN,
         markers : {"none", "square", "other", "any"},
         pens : SUBSET PenUVs \ {{}},
         dists : SUBSET (Dists \cup {INF}) \ {{}},
         palms : SUBSET PalmPoints \ {{}},
         draws : SUBSET BOOLEAN \ {{}},
         clients : SUBSET Clients \ {{}},
         inputs : {"any", "unknown"},
         argv : SUBSET Options]

VARIABLES
    simulate,       \* args.simulate, fixed for the session
    env,            \* what the sensors of this session can report (fixed)
    stop_event,     \* Event
    camera_ready,   \* Event
    cells,          \* the multiprocessing Value cells, by name
    spc,            \* supervisor (main) position
    vpc,            \* Perception Worker position
    warm,           \* warm-up frame waits done
    is_workspace_defined, \* WorkspaceManager.is_workspace_defined
    workspace_corners,    \* WorkspaceManager.workspace_corners / workspace_polygon
    palm_uv,        \* vision local: (palm_u, palm_v) of the current frame
    min_distance,   \* vision local: min_distance of the current frame (INF: none)
    current_hand_in_ws,   \* vision local
    vstatus,        \* vision local: status of the current frame
    calibration,    \* vision local: the CameraCalibration object
    cal_call,       \* history: last CameraCalibration method call and its result
    detections,     \* history: the markers detectMarkers found in the last frame
    frame_hd,       \* history: hand_detected as written by the frame that last wrote hand_distance
    rpc,            \* Motion Worker position in its body
    gpc,            \* Motion Worker position inside safe_movel / safe_move
    ri,             \* Motion Worker loop index i
    rdHd,           \* last hand_detected value the Motion Worker read (-1: none)
    rdDist,         \* last hand_distance value the Motion Worker read (-1: none)
    motion,         \* motion primitive in flight at the motion driver
    wasPaused,      \* history: the current gated move has paused
    clearSeen,      \* history: a safety-wait poll since the pause found it clear
    faulted,        \* history: the motion driver has raised in this worker
    unsafeInFlight, \* history: an unsafe frame was published during the flight
    mpc,            \* Status Worker position
    mHd,            \* Status Worker local hand_det
    current_status, \* SafetyMonitorServer.current_status (last broadcast)
    hpc,            \* handler thread of client 1 ("idle": not connected)
    rx,             \* data of the last recv() being processed (characters)
    response,       \* response computed by _process_command, not yet sent
    sent,           \* last response or welcome sent to client 1
    log_history,    \* SafetyMonitorServer.log_history (event types)
    arrival,        \* history: the last LogCap events in the order they were appended
    trims,          \* per thread: the slice _log has taken and not yet stored
    clients,        \* SafetyMonitorServer.clients
    apc,            \* accept thread: the client whose CONNECT it is logging (0: none)
    h2pc,           \* handler thread of client 2, which sends no commands
    bi,             \* broadcast_status: clients already visited by its loop
    dead,           \* broadcast_status: dead_clients
    pushed,         \* history: clients the current update was sent to
    audience,       \* history: clients connected since the current update began
    churned         \* history: a client connected or left during the current update

vars == <<simulate, env, stop_event, camera_ready, cells, spc, vpc, warm,
          is_workspace_defined, workspace_corners, min_distance,
          palm_uv, current_hand_in_ws, vstatus, calibration, cal_call,
          detections, frame_hd,
          rpc, gpc, ri, rdHd, rdDist, motion, wasPaused, clearSeen, faulted,
          unsafeInFlight, mpc, mHd, current_status,
          hpc, rx, response, sent, log_history, arrival, trims,
          clients, apc, h2pc, bi, dead, pushed, audience, churned>>

supVars == <<spc>>
visVars == <<vpc, warm, is_workspace_defined, workspace_corners, min_distance,
          palm_uv, current_hand_in_ws, vstatus, calibration, cal_call,
          detections, frame_hd>>
robVars == <<rpc, gpc, ri, rdHd, rdDist, motion, wasPaused, clearSeen, faulted>>
cmdVars == <<hpc, rx, response, sent>>
logVars == <<log_history, arrival, trims>>
conVars == <<clients, apc, h2pc>>
pushVars == <<bi, dead, pushed, audience, churned>>
srvVars == <<cmdVars, logVars, conVars, pushVars>>
monVars == <<mpc, mHd, current_status, srvVars>>

\* ------------------------------------------------------------ CameraCalibration
\* None, for a focal length or a principal point not yet known
NoValue == -1
\* depth argument None
NoDepth == -1
\* pixel_to_3d returning None
None3D == <<>>
\* lengths of the calibration object are kept in units of 0.1 mm
DEFAULT_WORKING_DISTANCE == 6000
\* PIXEL_TO_CM_RATIO / 100 metres per pixel, in units of 0.1 mm
PIXEL_TO_CM_RATIO == 18
CALIBRATION_ENABLED == TRUE

\* CameraCalibration.__init__
CameraCalibration ==
    [fx |-> NoValue, fy |-> NoValue, cx |-> NoValue, cy |-> NoValue,
     width |-> 0, height |-> 0, is_calibrated |-> FALSE,
     default_depth |-> DEFAULT_WORKING_DISTANCE]

\* no method of the calibration object has been called yet
NoCall == [method |-> "none"]

\* ------------------------------------------------------------ shared cells
InitialCells ==
    [hand_detected |-> 0, hand_distance |-> NO_HAND_DISTANCE,
     robot_paused |-> 0, current_progress |-> 0,
     pen_x |-> 0, pen_y |-> 0, pen_z |-> 0,
     pen_pixel_x |-> 640, pen_pixel_y |-> 400, pen_detected |-> 0,
     hand_in_workspace |-> 0, is_slowdown |-> 0,
     calib_fx |-> 0, calib_fy |-> 0, calib_cx |-> 0, calib_cy |-> 0,
     calib_ok |-> 0, aruco_count |-> 0, workspace_defined |-> 0]

CellNames == DOMAIN InitialCells

\* The cells of the record upd are assigned (`cell.value = v`).
Assign(upd) ==
    cells' = [c \in CellNames |-> IF c \in DOMAIN upd THEN upd[c] ELSE cells[c]]

Alive(pc) == pc \notin {"not_started", "exited", "terminated"}

NoMotion == [kind |-> "none", vel |-> 0, gated |-> FALSE]

NoMessage == [type |-> "none", result |-> "", history |-> <<>>]

\* SafetyMonitorServer._log: append, then keep the last LOG_CAP entries
LogCap == IF LOG_CAP < MaxLog THEN LOG_CAP ELSE MaxLog

LastN(h, n) == IF Len(h) > n THEN SubSeq(h, Len(h) - n + 1, Len(h)) ELSE h

_log(h, event_type) == LastN(Append(h, event_type), LogCap)

\* MonitorHandler.do_GET, /api/logs: server.log_history[-50:]
api_logs(h) == LastN(h, LOGS_PAGE)

\* the threads of the server that log, and no slice pending for any of them
NoTrims == [accept |-> <<>>, h1 |-> <<>>, h2 |-> <<>>]

InitWith(E) ==
    /\ simulate \in BOOLEAN
    /\ env \in E
    /\ stop_event = FALSE
    /\ camera_ready = FALSE
    /\ cells = InitialCells
    /\ spc = "start_vision"
    /\ vpc = "not_started"
    /\ warm = 0
    /\ is_workspace_defined = FALSE
    /\ workspace_corners = <<>>
    /\ palm_uv = <<>>
    /\ min_distance = INF
    /\ current_hand_in_ws = FALSE
    /\ vstatus = "none"
    /\ calibration = CameraCalibration
    /\ cal_call = NoCall
    /\ detections = <<>>
    /\ frame_hd = 0
    /\ rpc = "not_started"
    /\ gpc = "idle"
    /\ ri = 0
    /\ rdHd = -1
    /\ rdDist = -1
    /\ motion = NoMotion
    /\ wasPaused = FALSE
    /\ clearSeen = FALSE
    /\ faulted = FALSE
    /\ unsafeInFlight = FALSE
    /\ mpc = "not_started"
    /\ mHd = FALSE
    /\ current_status = [status |-> "none"]
    /\ hpc = "idle"
    /\ rx = <<>>
    /\ response = NoMessage
    /\ sent = NoMessage
    /\ log_history = <<>>
    /\ arrival = <<>>
    /\ trims = NoTrims
    /\ clients = <<>>
    /\ apc = 0
    /\ h2pc = "idle"
    /\ bi = 0
    /\ dead = <<>>
    /\ pushed = {}
    /\ audience = {}
    /\ churned = FALSE

\* Sessions explored.  WideEnv: every distance class and both zone outcomes,
\* no pen.  NearEnv / BareEnv: a hand that is either absent or inside the
\* danger distance, with and without pen, markers and driver intrinsics.
WideEnv == [intrinsics |-> TRUE, markers |-> "square", pens |-> {<<>>},
            dists |-> Dists \cup {INF}, palms |-> {PalmIn, PalmOut},
            draws |-> BOOLEAN, clients |-> {1}, inputs |-> "any", argv |-> {}]
NearEnv == [intrinsics |-> TRUE, markers |-> "square",
            pens |-> {<<600, 380>>},
            dists |-> {SAFETY_DISTANCE_M - 1, INF}, palms |-> {PalmIn},
            draws |-> {TRUE}, clients |-> {1}, inputs |-> "any", argv |-> {}]
BareEnv == [intrinsics |-> FALSE, markers |-> "none", pens |-> {<<>>},
            dists |-> {SAFETY_DISTANCE_M - 1, INF}, palms |-> {PalmOut},
            draws |-> {FALSE}, clients |-> {1}, inputs |-> "any", argv |-> {}]
\* ZoneEnv: every marker layout, palms inside, outside, on an edge and on a
\* corner of the square; a hand inside the danger distance.
ZoneEnv == [intrinsics |-> TRUE, markers |-> "any", pens |-> {<<>>},
            dists |-> {SAFETY_DISTANCE_M - 1},
            palms |-> PalmPoints, draws |-> {TRUE},
            clients |-> {1}, inputs |-> "any", argv |-> {}]
\* ResumeEnv: a hand inside the danger distance, between the two thresholds,
\* at the clear threshold, or absent; no markers, so no zone.
ResumeEnv == [BareEnv EXCEPT !.dists = {SAFETY_DISTANCE_M - 1,
                                        SAFETY_CLEAR_DISTANCE_M - 1,
                                        SAFETY_CLEAR_DISTANCE_M, INF}]
\* ChannelEnv: both clients connect, client 1 sends text that is no command.
ChannelEnv == [BareEnv EXCEPT !.clients = Clients, !.inputs = "unknown"]

\* OptionsEnvs: the sessions started with each choice of the options; the
\* markers in view carry the other id, alone or next to four of id 0; a hand
\* is in every frame, inside the danger distance or at the clear distance, with
\* its palm inside the square.
OptionsEnvs ==
    {[NearEnv EXCEPT !.markers = "other", !.pens = {<<>>},
                     !.dists = {SAFETY_DISTANCE_M - 1, SAFETY_CLEAR_DISTANCE_M},
                     !.argv = a] : a \in SUBSET Options}

\* main's globals after the option handling.  The workers are started with
\* the spawn method: each imports the module afresh and sees the defaults
\* SLOWDOWN_ENABLED and ARUCO_MARKER_ID, whatever main has assigned.
main_SLOWDOWN_ENABLED == "--no-slowdown" \notin env.argv
main_ARUCO_MARKER_ID ==
    IF "--marker-id" \in env.argv THEN OTHER_MARKER_ID ELSE ARUCO_MARKER_ID

Init == InitWith({NearEnv, BareEnv})
InitOptions == InitWith(OptionsEnvs)
InitWide == InitWith({WideEnv})
InitBare == InitWith({BareEnv})
InitZone == InitWith({ZoneEnv})
InitChannel == InitWith({ChannelEnv})
InitResume == InitWith({ResumeEnv})

\* ------------------------------------------------------------ supervisor (main)
\* vision_proc.start()
SupStartVision ==
    /\ spc = "start_vision"
    /\ vpc' = "starting"
    /\ spc' = "wait_camera"
    /\ UNCHANGED <<simulate, env, calibration, cal_call, detections, frame_hd, stop_event, camera_ready, cells, warm,
                   is_workspace_defined, workspace_corners, min_distance,
          palm_uv, current_hand_in_ws, vstatus,
                   robVars, unsafeInFlight, monVars>>

\* camera_ready.wait(timeout=30): returns when the event is set or when the
\* timeout elapses; in both cases main goes on to start the other workers.
SupCameraWait ==
    /\ spc = "wait_camera"
    /\ \/ camera_ready
       \/ ~camera_ready
    /\ spc' = "start_robot"
    /\ UNCHANGED <<simulate, env, stop_event, camera_ready, cells, visVars,
                   robVars, unsafeInFlight, monVars>>

\* robot_proc.start()
SupStartRobot ==
    /\ spc = "start_robot"
    /\ rpc' = "wait_camera"
    /\ spc' = "start_monitor"
    /\ UNCHANGED <<simulate, env, faulted, stop_event, camera_ready, cells, visVars,
                   gpc, ri, rdHd, rdDist, motion, wasPaused, clearSeen,
                   unsafeInFlight, monVars>>

\* monitor_proc.start(); monitor_process creates and starts its server
\* (server.start() logs "SERVER") and enters its loop
SupStartMonitor ==
    /\ spc = "start_monitor"
    /\ mpc' = "loop"
    /\ log_history' = _log(log_history, "SERVER")
    /\ arrival' = _log(arrival, "SERVER")
    /\ spc' = "supervise"
    /\ UNCHANGED <<simulate, env, stop_event, camera_ready, cells, visVars,
                   robVars, unsafeInFlight, mHd, current_status,
                   cmdVars, trims, conVars, pushVars>>

\* Variant of the supervision loop: robot_proc.is_alive() is not looked at.
SupSupervise_until_stop ==
    /\ spc = "supervise"
    /\ IF stop_event
       THEN spc' = "finally"
       ELSE UNCHANGED spc
    /\ UNCHANGED <<simulate, env, stop_event, camera_ready, cells, visVars, robVars,
                   unsafeInFlight, monVars>>

\* while not stop_event.is_set(): if not robot_proc.is_alive(): set, break; sleep
SupSupervise ==
    /\ spc = "supervise"
    /\ IF stop_event
       THEN /\ spc' = "finally"
            /\ UNCHANGED stop_event
       ELSE IF ~Alive(rpc)
            THEN /\ stop_event' = TRUE
                 /\ spc' = "finally"
            ELSE UNCHANGED <<spc, stop_event>>
    /\ UNCHANGED <<simulate, env, camera_ready, cells, visVars, robVars,
                   unsafeInFlight, monVars>>

\* signal_handler: SIGINT / SIGTERM delivered to main while it runs
SignalHandler ==
    /\ spc \notin {"done"}
    /\ ~stop_event
    /\ stop_event' = TRUE
    /\ UNCHANGED <<simulate, env, camera_ready, cells, supVars, visVars,
                   robVars, unsafeInFlight, monVars>>

\* finally: stop_event.set()
SupFinally ==
    /\ spc = "finally"
    /\ stop_event' = TRUE
    /\ spc' = "join_vision"
    /\ UNCHANGED <<simulate, env, camera_ready, cells, visVars, robVars,
                   unsafeInFlight, monVars>>

\* for proc in [...]: if proc.is_alive(): join(timeout=5); if alive: terminate()
\* A process that is (or becomes, within the grace period) not alive is left
\* alone; one still alive when the grace period ends is terminated.
JoinOutcome(pc) == IF Alive(pc) THEN "terminated" ELSE pc

SupJoinVision ==
    /\ spc = "join_vision"
    /\ vpc' = JoinOutcome(vpc)
    /\ spc' = "join_robot"
    /\ UNCHANGED <<simulate, env, calibration, cal_call, detections, frame_hd, stop_event, camera_ready, cells, warm,
                   is_workspace_defined, workspace_corners, min_distance,
          palm_uv, current_hand_in_ws, vstatus,
                   robVars, unsafeInFlight, monVars>>

\* Variant of the robot's turn in the finally loop: terminate() is forgotten.
SupJoinRobotNoTerminate ==
    /\ spc = "join_robot"
    /\ spc' = "join_monitor"
    /\ UNCHANGED <<simulate, env, stop_event, camera_ready, cells, visVars,
                   robVars, unsafeInFlight, monVars>>

SupJoinRobot ==
    /\ spc = "join_robot"
    /\ rpc' = JoinOutcome(rpc)
    /\ spc' = "join_monitor"
    /\ UNCHANGED <<simulate, env, faulted, stop_event, camera_ready, cells, visVars,
                   gpc, ri, rdHd, rdDist, motion, wasPaused, clearSeen,
                   unsafeInFlight, monVars>>

SupJoinMonitor ==
    /\ spc = "join_monitor"
    /\ mpc' = JoinOutcome(mpc)
    /\ spc' = "done"
    /\ UNCHANGED <<simulate, env, stop_event, camera_ready, cells, visVars,
                   robVars, unsafeInFlight, mHd, current_status, srvVars>>

\* the statements of main, and main with the signals it may receive
SupBody ==
    \/ SupStartVision \/ SupCameraWait \/ SupStartRobot \/ SupStartMonitor
    \/ SupSupervise \/ SupFinally
    \/ SupJoinVision \/ SupJoinRobot \/ SupJoinMonitor

SupNext == SupBody \/ SignalHandler


\* ------------------------------------------------------------ Perception Worker
SAFE == "SAFE"
CAUTION == "CAUTION"
DANGER == "DANGER"

\* vision_process, status decision of a frame with a hand
VisionStatus(d) ==
    IF d < SAFETY_DISTANCE_M THEN DANGER
    ELSE IF d < SAFETY_CLEAR_DISTANCE_M THEN CAUTION
    ELSE SAFE

\* vision_process_simulate, status shown for a frame with a hand
VisionSimStatus(d) == IF d < SAFETY_DISTANCE_M THEN DANGER ELSE SAFE

UnsafeCells(c) == c.hand_detected = 1 /\ c.hand_distance < SAFETY_DISTANCE_M

\* Intrinsics the driver reports, and the ones _set_defaults synthesizes
\* (1280 / (2 tan(87 deg / 2)) = 674.4, kept as an integer).
DriverIntrinsics == [fx |-> 920, fy |-> 920, cx |-> 642, cy |-> 358]
DefaultIntrinsics == [fx |-> 674, fy |-> 674, cx |-> 640, cy |-> 360]
SimIntrinsics == [fx |-> 900, fy |-> 900, cx |-> 640, cy |-> 360]

CalibCells(k) ==
    [calib_fx |-> k.fx, calib_fy |-> k.fy, calib_cx |-> k.cx,
     calib_cy |-> k.cy, calib_ok |-> 1]

\* ---- CameraCalibration methods
\* What reading the intrinsics of a stream profile can do: deliver them, raise
\* before any field is stored, raise after the fields are stored.
Profiles == {"intrinsics", "no_stream", "no_coeffs"}
ProfilesOf(reported) ==
    IF reported THEN {"intrinsics"} ELSE {"no_stream", "no_coeffs"}

WithIntrinsics(self, k) ==
    [self EXCEPT !.fx = k.fx, !.fy = k.fy, !.cx = k.cx, !.cy = k.cy,
                 !.width = 2 * DefaultIntrinsics.cx,
                 !.height = 2 * DefaultIntrinsics.cy]

_set_defaults(self) ==
    [WithIntrinsics(self, DefaultIntrinsics) EXCEPT !.is_calibrated = TRUE]

\* Variant of calibrate_from_realsense: a failed read leaves the object as it
\* is, without the defaults.
calibrate_from_realsense_keeps(self, profile) ==
    CASE profile = "intrinsics" ->
           [self |-> [WithIntrinsics(self, DriverIntrinsics)
                        EXCEPT !.is_calibrated = TRUE],
            value |-> TRUE]
      [] profile = "no_stream" -> [self |-> self, value |-> FALSE]
      [] profile = "no_coeffs" ->
           [self |-> WithIntrinsics(self, DriverIntrinsics), value |-> FALSE]

\* the object after the call, and the value returned
calibrate_from_realsense(self, profile) ==
    CASE profile = "intrinsics" ->
           [self |-> [WithIntrinsics(self, DriverIntrinsics)
                        EXCEPT !.is_calibrated = TRUE],
            value |-> TRUE]
      [] profile = "no_stream" ->
           [self |-> _set_defaults(self), value |-> FALSE]
      [] profile = "no_coeffs" ->
           [self |-> _set_defaults(WithIntrinsics(self, DriverIntrinsics)),
            value |-> FALSE]

\* floor of the square root, by bisection
RECURSIVE sqrt_between(_, _, _)
sqrt_between(n, lo, hi) ==
    IF lo = hi THEN lo
    ELSE LET mid == (lo + hi + 1) \div 2
         IN  IF mid <= n \div mid THEN sqrt_between(n, mid, hi)
                                 ELSE sqrt_between(n, lo, mid - 1)
sqrt(n) == sqrt_between(n, 0, n)

\* camera coordinates (X, Y, Z) of a pixel at a depth, or None
pixel_to_3d(self, u, v, depth_m) ==
    IF ~self.is_calibrated THEN None3D
    ELSE LET Z == IF depth_m = NoDepth THEN self.default_depth ELSE depth_m
         IN  << ((u - self.cx) * Z) \div self.fx,
                ((v - self.cy) * Z) \div self.fy,
                Z >>

Square(x) == x * x

\* Variant of calculate_3d_distance: the pixel-ratio path whatever the object.
calculate_3d_distance_by_ratio(self, point1_uv, point2_uv, depth1, depth2) ==
    sqrt(Square(PIXEL_TO_CM_RATIO)
           * (Square(point1_uv[1] - point2_uv[1])
              + Square(point1_uv[2] - point2_uv[2])))

calculate_3d_distance(self, point1_uv, point2_uv, depth1, depth2) ==
    LET p1 == pixel_to_3d(self, point1_uv[1], point1_uv[2], depth1)
        p2 == pixel_to_3d(self, point2_uv[1], point2_uv[2], depth2)
    IN  IF p1 = None3D \/ p2 = None3D
        THEN \* pixel_dist * PIXEL_TO_CM_RATIO / 100
             sqrt(Square(PIXEL_TO_CM_RATIO)
                    * (Square(point1_uv[1] - point2_uv[1])
                       + Square(point1_uv[2] - point2_uv[2])))
        ELSE \* np.linalg.norm(p1 - p2)
             sqrt(Square(p1[1] - p2[1]) + Square(p1[2] - p2[2])
                    + Square(p1[3] - p2[3]))

\* ---- WorkspaceManager
\* centres of the detected markers of the configured id, in detection order
marker_centers(frame) ==
    LET own == SelectSeq(frame, LAMBDA m : m.id = ARUCO_MARKER_ID)
    IN  [k \in DOMAIN own |-> own[k].center]

\* points[i] - center, times four: center = points.mean(axis=0)
FromCenter(points, i) ==
    LET sx == points[1][1] + points[2][1] + points[3][1] + points[4][1]
        sy == points[1][2] + points[2][2] + points[3][2] + points[4][2]
    IN  <<4 * points[i][1] - sx, 4 * points[i][2] - sy>>

\* np.arctan2(dy, dx) ranges over (-pi, pi]: below the x axis, on its
\* positive half (and the centre itself), above it, on its negative half.
AngleClass(v) ==
    IF v[2] < 0 THEN 0
    ELSE IF v[2] = 0 /\ v[1] >= 0 THEN 1
    ELSE IF v[2] > 0 THEN 2
    ELSE 3

Cross(a, b) == a[1] * b[2] - a[2] * b[1]

\* arctan2 of a is less than arctan2 of b
AngleLess(a, b) ==
    \/ AngleClass(a) < AngleClass(b)
    \/ /\ AngleClass(a) = AngleClass(b)
       /\ AngleClass(a) \in {0, 2}
       /\ Cross(a, b) > 0

\* np.argsort(angles): indices by ascending angle, equal angles in index order
argsort_angles(points) ==
    LET v == <<FromCenter(points, 1), FromCenter(points, 2),
               FromCenter(points, 3), FromCenter(points, 4)>>
        before(j, i) == AngleLess(v[j], v[i]) \/ (~AngleLess(v[i], v[j]) /\ j < i)
        rank(i) == Cardinality({j \in 1..4 : j # i /\ before(j, i)}) + 1
        ranks == <<rank(1), rank(2), rank(3), rank(4)>>
        at(n) == CHOOSE i \in 1..4 : ranks[i] = n
    IN  <<at(1), at(2), at(3), at(4)>>

\* np.argmin(sums): the first index of the least x + y
argmin_sums(points) ==
    LET sums == <<points[1][1] + points[1][2], points[2][1] + points[2][2],
                  points[3][1] + points[3][2], points[4][1] + points[4][2]>>
    IN  CHOOSE i \in 1..4 :
            /\ \A j \in 1..4 : sums[i] <= sums[j]
            /\ \A j \in 1..(i - 1) : sums[j] > sums[i]

\* np.roll(points, -(first - 1), axis=0)
roll(points, first) ==
    <<points[((first - 1) % 4) + 1], points[(first % 4) + 1],
      points[((first + 1) % 4) + 1], points[((first + 2) % 4) + 1]>>

\* Variant of _sort_corners_clockwise: the angular sort is left out.
sort_corners_roll_only(points) ==
    IF Len(points) # 4 THEN points
    ELSE LET pts == <<points[1], points[2], points[3], points[4]>>
         IN  roll(pts, argmin_sums(pts))

_sort_corners_clockwise(points) ==
    IF Len(points) # 4 THEN points
    ELSE LET pts == <<points[1], points[2], points[3], points[4]>>
             order == argsort_angles(pts)
             sorted_points == <<pts[order[1]], pts[order[2]],
                                pts[order[3]], pts[order[4]]>>
         IN  roll(sorted_points, argmin_sums(sorted_points))

\* Variant of update: a frame without four markers clears the zone.
update_clearing(ws, frame) ==
    LET centers == marker_centers(frame)
    IN  IF Len(centers) = 4
        THEN [corners |-> _sort_corners_clockwise(centers), defined |-> TRUE,
              detected |-> Len(centers)]
        ELSE [corners |-> <<>>, defined |-> FALSE, detected |-> Len(centers)]

\* Variant of update: a frame in which no marker at all is detected resets
\* the defined flag.
update_reset_on_none(ws, frame) ==
    LET centers == marker_centers(frame)
    IN  IF Len(centers) = 4
        THEN [corners |-> _sort_corners_clockwise(centers), defined |-> TRUE,
              detected |-> Len(centers)]
        ELSE [corners |-> ws.corners, defined |-> ws.defined /\ frame # <<>>,
              detected |-> Len(centers)]

\* WorkspaceManager.update on ws = [corners, defined]: the zone after the
\* frame, and len(self.detected_markers)
update(ws, frame) ==
    LET centers == marker_centers(frame)
    IN  IF Len(centers) = 4
        THEN [corners |-> _sort_corners_clockwise(centers), defined |-> TRUE,
              detected |-> Len(centers)]
        ELSE [corners |-> ws.corners, defined |-> ws.defined,
              detected |-> Len(centers)]

\* the point lies on the segment from a to b
OnSegment(p, a, b) ==
    /\ Cross(<<b[1] - a[1], b[2] - a[2]>>, <<p[1] - a[1], p[2] - a[2]>>) = 0
    /\ (a[1] <= p[1] /\ p[1] <= b[1]) \/ (b[1] <= p[1] /\ p[1] <= a[1])
    /\ (a[2] <= p[2] /\ p[2] <= b[2]) \/ (b[2] <= p[2] /\ p[2] <= a[2])

Next4(n) == (n % 4) + 1

\* the edge from a to b crosses the horizontal ray from p to the right
CrossesRay(p, a, b) ==
    /\ (a[2] > p[2]) # (b[2] > p[2])
    /\ LET side == Cross(<<b[1] - a[1], b[2] - a[2]>>, <<p[1] - a[1], p[2] - a[2]>>)
       IN  IF b[2] > a[2] THEN side > 0 ELSE side < 0

\* cv2.pointPolygonTest(polygon, point, False): +1 inside, 0 on an edge, -1 outside
pointPolygonTest(polygon, p) ==
    IF \E n \in 1..4 : OnSegment(p, polygon[n], polygon[Next4(n)]) THEN 0
    ELSE IF Cardinality({n \in 1..4 :
                CrossesRay(p, polygon[n], polygon[Next4(n)])}) % 2 = 1
         THEN 1 ELSE -1

\* Variant of is_point_in_workspace: the boundary counts as outside.
is_point_strictly_inside(ws, point_uv) ==
    IF ~ws.defined THEN FALSE
    ELSE pointPolygonTest(ws.corners, point_uv) > 0

\* WorkspaceManager.is_point_in_workspace
is_point_in_workspace(ws, point_uv) ==
    IF ~ws.defined THEN FALSE
    ELSE pointPolygonTest(ws.corners, point_uv) >= 0

\* imports, model load, pipeline.start(config): on failure the worker returns
VisionStart ==
    /\ vpc = "starting"
    /\ ~simulate
    /\ \/ vpc' = "calibrate"
       \/ vpc' = "exited"
    /\ UNCHANGED <<simulate, env, calibration, cal_call, detections, frame_hd, stop_event, camera_ready, cells, supVars,
                   warm, is_workspace_defined, workspace_corners, min_distance,
          palm_uv, current_hand_in_ws,
                   vstatus, robVars, unsafeInFlight, monVars>>

\* calibrate_from_realsense (driver intrinsics, or _set_defaults on failure),
\* then the calibration cells are published
VisionCalibrate ==
    /\ vpc = "calibrate"
    /\ \E profile \in ProfilesOf(env.intrinsics) :
         \E r \in {IF CALIBRATION_ENABLED
                   THEN calibrate_from_realsense(calibration, profile)
                   ELSE [self |-> _set_defaults(calibration), value |-> FALSE]} :
            /\ calibration' = r.self
            /\ cal_call' = [method |-> "calibrate_from_realsense",
                            value |-> r.value]
            /\ IF r.self.is_calibrated
               THEN Assign(CalibCells(r.self))
               ELSE UNCHANGED cells
    /\ vpc' = "warmup"
    /\ UNCHANGED <<simulate, env, stop_event, camera_ready, supVars,
                   warm, is_workspace_defined, workspace_corners, min_distance,
                   palm_uv, current_hand_in_ws,
                   vstatus, detections, frame_hd, robVars, unsafeInFlight, monVars>>

\* Variant of the warm-up step: camera_ready is set inside the warm-up loop.
VisionWarmupSetsReady ==
    /\ vpc = "warmup"
    /\ warm < warmupCalls
    /\ warm' = warm + 1
    /\ camera_ready' = TRUE
    /\ UNCHANGED <<simulate, env, calibration, cal_call, detections, frame_hd, stop_event, cells, supVars, vpc,
                   is_workspace_defined, workspace_corners, min_distance,
          palm_uv, current_hand_in_ws,
                   vstatus, robVars, unsafeInFlight, monVars>>

\* for _ in range(30): pipeline.wait_for_frames()  (a raising wait ends the worker)
VisionWarmup ==
    /\ vpc = "warmup"
    /\ warm < warmupCalls
    /\ \/ /\ warm' = warm + 1
          /\ UNCHANGED vpc
       \/ /\ vpc' = "exited"
          /\ UNCHANGED warm
    /\ UNCHANGED <<simulate, env, calibration, cal_call, detections, frame_hd, stop_event, camera_ready, cells, supVars,
                   is_workspace_defined, workspace_corners, min_distance,
          palm_uv, current_hand_in_ws,
                   vstatus, robVars, unsafeInFlight, monVars>>

\* camera_ready.set() after the warm-up loop
VisionReady ==
    /\ vpc = "warmup"
    /\ warm = warmupCalls
    /\ camera_ready' = TRUE
    /\ vpc' = "loop"
    /\ UNCHANGED <<simulate, env, calibration, cal_call, detections, frame_hd, stop_event, cells, supVars,
                   warm, is_workspace_defined, workspace_corners, min_distance,
          palm_uv, current_hand_in_ws,
                   vstatus, robVars, unsafeInFlight, monVars>>

\* vision_process_simulate: calibration and pen cells, then sleep(1)
VisionSimInit ==
    /\ vpc = "starting"
    /\ simulate
    /\ Assign(CalibCells(SimIntrinsics) @@
                        [pen_pixel_x |-> 640, pen_pixel_y |-> 400])
    /\ vpc' = "sim_ready"
    /\ UNCHANGED <<simulate, env, calibration, cal_call, detections, frame_hd, stop_event, camera_ready, supVars,
                   warm, is_workspace_defined, workspace_corners, min_distance,
          palm_uv, current_hand_in_ws,
                   vstatus, robVars, unsafeInFlight, monVars>>

\* vision_process_simulate: camera_ready.set(), workspace cells
VisionSimReady ==
    /\ vpc = "sim_ready"
    /\ camera_ready' = TRUE
    /\ Assign([workspace_defined |-> 1, aruco_count |-> 4])
    /\ vpc' = "loop"
    /\ UNCHANGED <<simulate, env, calibration, cal_call, detections, frame_hd, stop_event, supVars,
                   warm, is_workspace_defined, workspace_corners, min_distance,
          palm_uv, current_hand_in_ws,
                   vstatus, robVars, unsafeInFlight, monVars>>

\* while not stop_event.is_set(): false -> finally, the worker ends
VisionStop ==
    /\ vpc = "loop"
    /\ stop_event
    /\ vpc' = "exited"
    /\ UNCHANGED <<simulate, env, calibration, cal_call, detections, frame_hd, stop_event, camera_ready, cells, supVars,
                   warm, is_workspace_defined, workspace_corners, min_distance,
          palm_uv, current_hand_in_ws,
                   vstatus, robVars, unsafeInFlight, monVars>>

\* pipeline.wait_for_frames() without a color frame (continue), or raising
\* (except / finally: the worker ends)
VisionFrameFail ==
    /\ vpc = "loop"
    /\ ~stop_event
    /\ ~simulate
    /\ \/ UNCHANGED vpc
       \/ vpc' = "exited"
    /\ UNCHANGED <<simulate, env, calibration, cal_call, detections, frame_hd, stop_event, camera_ready, cells, supVars,
                   warm, is_workspace_defined, workspace_corners, min_distance,
          palm_uv, current_hand_in_ws,
                   vstatus, robVars, unsafeInFlight, monVars>>

\* One frame of vision_process up to the first hand cell: workspace.update and
\* its two cells, the pen cells, min_distance and current_hand_in_ws, then
\* hand_detected.value = 1 / 0.
\*   mk    the markers the detector reports in the frame
\*   pen   <<u, v>> of the detected pen, or <<>> when none is found
\*   d     nearest valid fingertip distance, INF when there is none
\*   palm  position of the palm landmark
VisionFrame ==
    /\ vpc = "loop"
    /\ ~stop_event
    /\ ~simulate
    /\ \E mk \in MarkerFramesOf(env.markers) :
       \E ws \in {update([corners |-> workspace_corners,
                           defined |-> is_workspace_defined], mk)} :
          LET zone == [aruco_count |-> ws.detected,
                       workspace_defined |-> IF ws.defined THEN 1 ELSE 0]
          IN  /\ detections' = mk
              /\ is_workspace_defined' = ws.defined
              /\ workspace_corners' = ws.corners
              /\ \E pen \in env.pens, d \in env.dists, palm \in env.palms :
                    LET pencells ==
                            IF pen = <<>>
                            THEN [pen_detected |-> 0]
                            ELSE [pen_pixel_x |-> pen[1], pen_pixel_y |-> pen[2],
                                  pen_detected |-> 1]
                    IN  /\ min_distance' = d
                        /\ palm_uv' = palm
                        /\ current_hand_in_ws' =
                              (ws.defined /\ is_point_in_workspace(ws, palm))
                        /\ Assign(zone @@ pencells @@
                                  [hand_detected |-> IF d < INF THEN 1 ELSE 0])
    /\ unsafeInFlight' = (unsafeInFlight \/ (motion.kind # "none" /\ UnsafeCells(cells')))
    /\ vpc' = "w_dist"
    /\ UNCHANGED <<simulate, env, calibration, cal_call, frame_hd, stop_event, camera_ready, supVars, warm, vstatus,
                   robVars, monVars>>

\* One iteration of vision_process_simulate up to the first hand cell:
\* hand_detected.value = 1 / 0 (the random draws are taken from the session)
VisionSimFrame ==
    /\ vpc = "loop"
    /\ ~stop_event
    /\ simulate
    /\ \E d \in env.dists, in_ws \in env.draws :
          /\ min_distance' = d
          /\ current_hand_in_ws' = (d < INF /\ in_ws)
          /\ Assign([hand_detected |-> IF d < INF THEN 1 ELSE 0])
    /\ unsafeInFlight' = (unsafeInFlight \/ (motion.kind # "none" /\ UnsafeCells(cells')))
    /\ vpc' = "w_dist"
    /\ UNCHANGED <<simulate, env, calibration, cal_call, detections, frame_hd, stop_event, camera_ready, supVars,
                   warm, is_workspace_defined, workspace_corners, palm_uv,
                   vstatus, robVars, monVars>>

HandFound == min_distance < INF

\* Variant of the distance write: a frame without a hand writes 0.0, not 999.0.
VisionWriteHandDistance_zero_sentinel ==
    /\ vpc = "w_dist"
    /\ Assign([hand_distance |-> IF HandFound THEN min_distance ELSE 0])
    /\ frame_hd' = cells.hand_detected
    /\ unsafeInFlight' = (unsafeInFlight \/ (motion.kind # "none" /\ UnsafeCells(cells')))
    /\ vpc' = "w_flags"
    /\ UNCHANGED <<simulate, env, calibration, cal_call, detections, stop_event, camera_ready, supVars, warm,
                   is_workspace_defined, workspace_corners, min_distance,
          palm_uv, current_hand_in_ws, vstatus,
                   robVars, monVars>>

\* hand_distance.value = min_distance / 999.0
VisionWriteHandDistance ==
    /\ vpc = "w_dist"
    /\ Assign([hand_distance |-> IF HandFound THEN min_distance
                                           ELSE NO_HAND_DISTANCE])
    /\ frame_hd' = cells.hand_detected
    /\ unsafeInFlight' = (unsafeInFlight \/ (motion.kind # "none" /\ UnsafeCells(cells')))
    /\ vpc' = "w_flags"
    /\ UNCHANGED <<simulate, env, calibration, cal_call, detections, stop_event, camera_ready, supVars, warm,
                   is_workspace_defined, workspace_corners, min_distance,
          palm_uv, current_hand_in_ws, vstatus,
                   robVars, monVars>>

\* Variant of the flag step: a frame without a hand leaves the two flags as
\* the previous frame wrote them.
VisionWriteFlagsKeptWithoutHand ==
    /\ vpc = "w_flags"
    /\ Assign(
          IF HandFound
          THEN [hand_in_workspace |-> IF current_hand_in_ws THEN 1 ELSE 0,
                is_slowdown |-> IF current_hand_in_ws /\ SLOWDOWN_ENABLED
                                THEN 1 ELSE 0]
          ELSE [hand_detected |-> 0])
    /\ vstatus' = IF ~HandFound THEN "none"
                  ELSE IF simulate THEN VisionSimStatus(min_distance)
                  ELSE VisionStatus(min_distance)
    /\ \/ /\ vpc' = "loop"
          /\ UNCHANGED stop_event
       \/ /\ stop_event' = TRUE
          /\ vpc' = "exited"
    /\ UNCHANGED <<simulate, env, calibration, cal_call, detections, frame_hd, camera_ready, supVars, warm, is_workspace_defined,
                   workspace_corners, min_distance, palm_uv, current_hand_in_ws,
                   robVars, unsafeInFlight,
                   monVars>>

\* Variant of the flag step: the slowdown flag is raised only for a hand that is
\* also nearer than the clear distance.
VisionWriteFlagsSlowdownWhenNear ==
    /\ vpc = "w_flags"
    /\ Assign(
          IF HandFound
          THEN [hand_in_workspace |-> IF current_hand_in_ws THEN 1 ELSE 0,
                is_slowdown |-> IF current_hand_in_ws /\ SLOWDOWN_ENABLED
                                   /\ min_distance < SAFETY_CLEAR_DISTANCE_M
                                THEN 1 ELSE 0]
          ELSE [hand_in_workspace |-> 0, is_slowdown |-> 0])
    /\ vstatus' = IF ~HandFound THEN "none"
                  ELSE IF simulate THEN VisionSimStatus(min_distance)
                  ELSE VisionStatus(min_distance)
    /\ \/ /\ vpc' = "loop"
          /\ UNCHANGED stop_event
       \/ /\ stop_event' = TRUE
          /\ vpc' = "exited"
    /\ UNCHANGED <<simulate, env, calibration, cal_call, detections, frame_hd, camera_ready, supVars, warm, is_workspace_defined,
                   workspace_corners, min_distance, palm_uv, current_hand_in_ws,
                   robVars, unsafeInFlight,
                   monVars>>

\* hand_in_workspace / is_slowdown, the frame's status, then the operator key:
\* 'q' sets stop_event and ends the worker
VisionWriteFlags ==
    /\ vpc = "w_flags"
    /\ Assign(
          IF HandFound
          THEN [hand_in_workspace |-> IF current_hand_in_ws THEN 1 ELSE 0,
                is_slowdown |-> IF current_hand_in_ws /\ SLOWDOWN_ENABLED
                                THEN 1 ELSE 0]
          ELSE [hand_in_workspace |-> 0, is_slowdown |-> 0])
    /\ vstatus' = IF ~HandFound THEN "none"
                  ELSE IF simulate THEN VisionSimStatus(min_distance)
                  ELSE VisionStatus(min_distance)
    /\ \/ /\ vpc' = "loop"
          /\ UNCHANGED stop_event
       \/ /\ stop_event' = TRUE
          /\ vpc' = "exited"
    /\ UNCHANGED <<simulate, env, calibration, cal_call, detections, frame_hd, camera_ready, supVars, warm, is_workspace_defined,
                   workspace_corners, min_distance, palm_uv, current_hand_in_ws,
                   robVars, unsafeInFlight,
                   monVars>>

VisionNext ==
    \/ VisionStart \/ VisionCalibrate \/ VisionWarmup \/ VisionReady
    \/ VisionSimInit \/ VisionSimReady \/ VisionStop \/ VisionFrameFail
    \/ VisionFrame \/ VisionSimFrame
    \/ VisionWriteHandDistance \/ VisionWriteFlags


\* ------------------------------------------------------------ Motion Worker
\* Variant of check_safety(): the comparison one centimetre too lenient.
check_safety_lenient(hd, dist) ==
    IF hd = 1 THEN dist >= SAFETY_DISTANCE_M - 1 ELSE TRUE

\* check_safety(), on the values it read (dist is read only when hd = 1)
check_safety(hd, dist) ==
    IF hd = 1 THEN dist >= SAFETY_DISTANCE_M ELSE TRUE

\* Variants of the poll test: the first poll always ends the wait; the danger
\* threshold used as the clear threshold; no hand and a clear distance both
\* asked for.
wait_clear_test_both(hd, dist) ==
    hd = 0 /\ dist >= SAFETY_CLEAR_DISTANCE_M

wait_clear_test_first_poll(hd, dist) == TRUE

wait_clear_test_single_threshold(hd, dist) ==
    hd = 0 \/ dist >= SAFETY_DISTANCE_M

\* the test of one poll of wait_safety_clear() / wait_clear(), on the values it
\* read (dist is read only when hd # 0)
wait_clear_test(hd, dist) ==
    hd = 0 \/ dist >= SAFETY_CLEAR_DISTANCE_M

\* current_vel = vel * SLOWDOWN_FACTOR if (SLOWDOWN_ENABLED and is_slowdown == 1) else vel
current_vel(vel, slow) ==
    IF SLOWDOWN_ENABLED /\ slow = 1 THEN (vel * SLOWDOWN_TENTHS) \div 10 ELSE vel

\* drl_script_stop(0): stops the motion in flight, if any
drl_script_stop(m) == NoMotion

\* what a poll observed (history only): no hand, or a distance read at or
\* above the clear threshold (-1: distance not read)
ObservedClear(hd, dist) == hd = 0 \/ dist >= SAFETY_CLEAR_DISTANCE_M

GatePhases == {"approach", "draw_gate", "sim_home", "sim_start"}

\* where the worker goes when the try body is left
AfterTry == IF simulate THEN "exited" ELSE "return"

\* entering safe_movel / safe_move from position `phase`
GateEnter(phase) ==
    /\ rpc' = phase
    /\ gpc' = "loop"
    /\ rdHd' = -1
    /\ rdDist' = -1
    /\ wasPaused' = FALSE
    /\ clearSeen' = FALSE

\* leaving a position without entering a gated move
GoTo(phase) ==
    /\ rpc' = phase
    /\ gpc' = "idle"
    /\ rdHd' = -1
    /\ rdDist' = -1
    /\ wasPaused' = FALSE
    /\ clearSeen' = FALSE

\* safe_movel / safe_move returns ok to its caller
GateReturn(ok) ==
    CASE rpc = "approach"  -> GoTo("draw") /\ UNCHANGED ri
      [] rpc = "draw_gate" -> IF ok THEN GoTo("draw") /\ ri' = ri + 1
                                    ELSE GoTo(AfterTry) /\ UNCHANGED ri
      [] rpc = "sim_home"  -> GateEnter("sim_start") /\ UNCHANGED ri
      [] rpc = "sim_start" -> GoTo("draw") /\ UNCHANGED ri

\* Variant of the wait: camera_ready.wait(timeout=...) as in main, which returns
\* when the timeout elapses too.
RobotCameraWait_timeout ==
    /\ rpc = "wait_camera"
    /\ IF simulate THEN GateEnter("sim_home") ELSE GoTo("init")
    /\ UNCHANGED <<simulate, env, faulted, stop_event, camera_ready, cells, supVars,
                   visVars, ri, motion, unsafeInFlight, monVars>>

\* camera_ready.wait(): no timeout
RobotCameraWait ==
    /\ rpc = "wait_camera"
    /\ camera_ready
    /\ IF simulate THEN GateEnter("sim_home") ELSE GoTo("init")
    /\ UNCHANGED <<simulate, env, faulted, stop_event, camera_ready, cells, supVars,
                   visVars, ri, motion, unsafeInFlight, monVars>>

\* rclpy / DR_init / DSR_ROBOT2 / gripper initialisation, outside the try: an
\* error here ends the worker
RobotInit ==
    /\ rpc = "init"
    /\ \/ GoTo("home")
       \/ GoTo("exited")
    /\ UNCHANGED <<simulate, env, faulted, stop_event, camera_ready, cells, supVars,
                   visVars, ri, motion, unsafeInFlight, monVars>>

UngatedKind == [home |-> "movej_home", start |-> "movel_start", return |-> "movej_home"]

\* movej(posj(*JOINT_HOME), VEL, ACC) / movel(posx(*START_POS), VEL, ACC) at the
\* head of the try, and movej(posj(*JOINT_HOME), VEL, ACC) in the finally
RobotMoveUngated ==
    /\ rpc \in {"home", "start", "return"}
    /\ motion' = [kind |-> UngatedKind[rpc], vel |-> VEL, gated |-> FALSE]
    /\ unsafeInFlight' = FALSE
    /\ rpc' = CASE rpc = "home" -> "home_moving"
                [] rpc = "start" -> "start_moving"
                [] rpc = "return" -> "return_moving"
    /\ UNCHANGED <<simulate, env, faulted, stop_event, camera_ready, cells, supVars,
                   visVars, gpc, ri, rdHd, rdDist, wasPaused, clearSeen, monVars>>

\* for i in range(total): if stop_event.is_set(): break;
\* current_progress.value = (i + 1) / total * 100; safe_movel(...)
RobotDrawLoop ==
    /\ rpc = "draw"
    /\ IF ri >= total \/ stop_event
       THEN /\ GoTo(AfterTry)
            /\ UNCHANGED cells
       ELSE /\ Assign([current_progress |-> ((ri + 1) * 100) \div total])
            /\ GateEnter("draw_gate")
    /\ UNCHANGED <<simulate, env, faulted, stop_event, camera_ready, supVars, visVars, ri,
                   motion, unsafeInFlight, monVars>>

\* Variant of the loop head: `while True`, stop_event is not looked at.
GateLoop_while_true ==
    /\ rpc \in GatePhases
    /\ gpc = "loop"
    /\ IF FALSE
       THEN GateReturn(FALSE)
       ELSE /\ rdHd' = cells.hand_detected
            /\ rdDist' = -1
            /\ gpc' = IF rdHd' = 1 THEN "check_dist"
                      ELSE IF check_safety(rdHd', rdDist') THEN "safe" ELSE "unsafe"
            /\ UNCHANGED <<rpc, ri, wasPaused, clearSeen>>
    /\ UNCHANGED <<simulate, env, faulted, stop_event, camera_ready, cells, supVars,
                   visVars, motion, unsafeInFlight, monVars>>

\* safe_movel: `while not stop_event.is_set()` and the first read of check_safety()
GateLoop ==
    /\ rpc \in GatePhases
    /\ gpc = "loop"
    /\ IF stop_event
       THEN GateReturn(FALSE)
       ELSE /\ rdHd' = cells.hand_detected
            /\ rdDist' = -1
            /\ gpc' = IF rdHd' = 1 THEN "check_dist"
                      ELSE IF check_safety(rdHd', rdDist') THEN "safe" ELSE "unsafe"
            /\ UNCHANGED <<rpc, ri, wasPaused, clearSeen>>
    /\ UNCHANGED <<simulate, env, faulted, stop_event, camera_ready, cells, supVars,
                   visVars, motion, unsafeInFlight, monVars>>

\* check_safety(): the read of hand_distance and the result
GateCheckDist ==
    /\ rpc \in GatePhases
    /\ gpc = "check_dist"
    /\ rdDist' = cells.hand_distance
    /\ gpc' = IF check_safety(rdHd, rdDist') THEN "safe" ELSE "unsafe"
    /\ UNCHANGED <<simulate, env, faulted, stop_event, camera_ready, cells, supVars,
                   visVars, rpc, ri, rdHd, motion, wasPaused, clearSeen,
                   unsafeInFlight, monVars>>

GatedVel == IF rpc = "draw_gate" THEN DRAW_VEL ELSE VEL

\* robot_paused.value = 0; current_vel = ...; movel(pos, current_vel, acc)
\* (robot_process_simulate: time.sleep(dur / factor))
GateIssue ==
    /\ rpc \in GatePhases
    /\ gpc = "safe"
    /\ Assign([robot_paused |-> 0])
    /\ motion' = [kind |-> IF simulate THEN "sleep" ELSE "movel",
                  vel |-> current_vel(GatedVel, cells.is_slowdown),
                  gated |-> TRUE]
    /\ unsafeInFlight' = FALSE
    /\ gpc' = "moving"
    /\ UNCHANGED <<simulate, env, faulted, stop_event, camera_ready, supVars, visVars,
                   rpc, ri, rdHd, rdDist, wasPaused, clearSeen, monVars>>

\* Variant of the pause step: the worker enters the wait without marking
\* itself paused.
GatePauseUnmarked ==
    /\ rpc \in GatePhases
    /\ gpc = "unsafe"
    /\ motion' = IF simulate THEN motion ELSE drl_script_stop(motion)
    /\ wasPaused' = TRUE
    /\ clearSeen' = FALSE
    /\ gpc' = "wait"
    /\ UNCHANGED <<simulate, env, faulted, stop_event, camera_ready, cells, supVars,
                   visVars, rpc, ri, rdHd, rdDist, unsafeInFlight, monVars>>

\* robot_paused.value = 1; drl_script_stop(0) (robot_process only), which
\* returns or raises; then the wait
GatePause ==
    /\ rpc \in GatePhases
    /\ gpc = "unsafe"
    /\ Assign([robot_paused |-> 1])
    /\ \/ /\ motion' = IF simulate THEN motion ELSE drl_script_stop(motion)
          /\ gpc' = "wait"
       \/ /\ ~simulate
          /\ UNCHANGED motion
          /\ gpc' = "halt_failed"
    /\ wasPaused' = TRUE
    /\ clearSeen' = FALSE
    /\ UNCHANGED <<simulate, env, faulted, stop_event, camera_ready, supVars, visVars,
                   rpc, ri, rdHd, rdDist, unsafeInFlight, monVars>>

\* drl_script_stop(0) has raised: `except: pass`, then wait_safety_clear()
GateHaltFailed ==
    /\ rpc \in GatePhases
    /\ gpc = "halt_failed"
    /\ gpc' = "wait"
    /\ UNCHANGED <<simulate, env, faulted, stop_event, camera_ready, cells, supVars,
                   visVars, rpc, ri, rdHd, rdDist, motion, wasPaused, clearSeen,
                   unsafeInFlight, monVars>>

\* wait_safety_clear: `while not stop_event.is_set()` and the read of hand_detected
GateWait ==
    /\ rpc \in GatePhases
    /\ gpc = "wait"
    /\ IF stop_event
       THEN GateReturn(FALSE)
       ELSE /\ rdHd' = cells.hand_detected
            /\ rdDist' = -1
            /\ gpc' = IF rdHd' # 0 THEN "wait_dist"
                      ELSE IF wait_clear_test(rdHd', rdDist') THEN "loop" ELSE "wait"
            /\ clearSeen' = (clearSeen \/ ObservedClear(rdHd', rdDist'))
            /\ UNCHANGED <<rpc, ri, wasPaused>>
    /\ UNCHANGED <<simulate, env, faulted, stop_event, camera_ready, cells, supVars,
                   visVars, motion, unsafeInFlight, monVars>>

\* wait_safety_clear: the read of hand_distance; clear -> return True, else
\* time.sleep(CHECK_INTERVAL) and poll again
GateWaitDist ==
    /\ rpc \in GatePhases
    /\ gpc = "wait_dist"
    /\ rdDist' = cells.hand_distance
    /\ gpc' = IF wait_clear_test(rdHd, rdDist') THEN "loop" ELSE "wait"
    /\ clearSeen' = (clearSeen \/ ObservedClear(rdHd, rdDist'))
    /\ UNCHANGED <<simulate, env, faulted, stop_event, camera_ready, cells, supVars,
                   visVars, rpc, ri, rdHd, motion, wasPaused, unsafeInFlight,
                   monVars>>

\* the motion driver completes the primitive in flight: movej / movel / sleep returns
MotionComplete ==
    /\ motion.kind # "none"
    /\ Alive(rpc)
    /\ motion' = NoMotion
    /\ CASE rpc = "home_moving"   -> GoTo("start") /\ UNCHANGED ri
         [] rpc = "start_moving"  -> GateEnter("approach") /\ UNCHANGED ri
         [] rpc = "return_moving" -> GoTo("exited") /\ UNCHANGED ri
         [] rpc \in GatePhases    -> GateReturn(TRUE)
    /\ UNCHANGED <<simulate, env, faulted, stop_event, camera_ready, cells, supVars,
                   visVars, unsafeInFlight, monVars>>

\* Variant of the fault path: the except clause without the finally.
MotionFaultWithoutFinally ==
    /\ motion.kind # "none"
    /\ Alive(rpc)
    /\ ~simulate
    /\ motion' = NoMotion
    /\ faulted' = TRUE
    /\ GoTo("exited")
    /\ UNCHANGED <<simulate, env, stop_event, camera_ready, cells, supVars,
                   visVars, ri, unsafeInFlight, monVars>>

\* the motion driver raises during the primitive in flight (robot_process only):
\* inside the try -> except (the error is printed), finally; inside the
\* finally -> the worker ends
MotionFault ==
    /\ motion.kind # "none"
    /\ Alive(rpc)
    /\ ~simulate
    /\ motion' = NoMotion
    /\ faulted' = TRUE
    /\ IF rpc = "return_moving" THEN GoTo("exited") ELSE GoTo("return")
    /\ UNCHANGED <<simulate, env, stop_event, camera_ready, cells, supVars,
                   visVars, ri, unsafeInFlight, monVars>>

RobotNext ==
    \/ RobotCameraWait \/ RobotInit \/ RobotMoveUngated \/ RobotDrawLoop
    \/ GateLoop \/ GateCheckDist \/ GateIssue \/ GatePause \/ GateHaltFailed
    \/ GateWait \/ GateWaitDist \/ MotionComplete \/ MotionFault


\* ------------------------------------------------------------ Status Worker
\* monitor_process, status decision on the values it read
MonitorStatus(hand_det, dist) ==
    IF hand_det /\ dist < MONITOR_DIST_LIMIT
    THEN IF dist < SAFETY_DISTANCE_M THEN DANGER
         ELSE IF dist < SAFETY_CLEAR_DISTANCE_M THEN CAUTION
         ELSE SAFE
    ELSE SAFE

\* 'hand_distance_cm': round(dist * 100, 1) if dist < 100 else None  (-1: None)
HandDistanceCm(dist) == IF dist < MONITOR_DIST_LIMIT THEN dist ELSE -1

\* while not stop_event.is_set(): hand_det = hand_detected.value == 1
\* (loop left: finally, server.stop(), the worker ends)
MonitorLoop ==
    /\ mpc = "loop"
    /\ IF stop_event
       THEN /\ mpc' = "exited"
            /\ UNCHANGED mHd
       ELSE /\ mHd' = (cells.hand_detected = 1)
            /\ mpc' = "read"
    /\ UNCHANGED <<simulate, env, stop_event, camera_ready, cells, supVars,
                   visVars, robVars, unsafeInFlight, current_status, srvVars>>

Range(seq) == {seq[k] : k \in DOMAIN seq}

\* broadcast_status up to its loop over self.clients: with no client the call
\* is over, else the loop starts at the first one
BroadcastBegin ==
    /\ mpc' = IF clients = <<>> THEN "loop" ELSE "push"
    /\ bi' = 0
    /\ dead' = <<>>
    /\ pushed' = {}
    /\ audience' = Range(clients)
    /\ churned' = FALSE

\* Variant of the broadcast step: the Status Worker also resets robot_paused.
MonitorBroadcastResetsPause ==
    /\ mpc = "read"
    /\ current_status' = [status |-> SAFE, hand_detected |-> mHd,
                          hand_distance_cm |-> -1]
    /\ Assign([robot_paused |-> 0])
    /\ BroadcastBegin
    /\ UNCHANGED <<simulate, env, stop_event, camera_ready, supVars,
                   visVars, robVars, unsafeInFlight, mHd, cmdVars, logVars,
                   conVars>>

\* dist = hand_distance.value ...; the status decision; server.broadcast_status;
\* time.sleep(0.1)
MonitorBroadcast ==
    /\ mpc = "read"
    /\ LET dist == cells.hand_distance
       IN  current_status' = [status |-> MonitorStatus(mHd, dist),
                              hand_detected |-> mHd,
                              hand_distance_cm |-> HandDistanceCm(dist)]
    /\ BroadcastBegin
    /\ UNCHANGED <<simulate, env, stop_event, camera_ready, cells, supVars,
                   visVars, robVars, unsafeInFlight, mHd, cmdVars, logVars,
                   conVars>>

\* SafetyMonitorServer._process_command("STOP") -> emergency_stop(): stop_event.set()
EmergencyStop ==
    /\ mpc \in {"loop", "read"}
    /\ ~stop_event
    /\ stop_event' = TRUE
    /\ UNCHANGED <<simulate, env, camera_ready, cells, supVars, visVars,
                   robVars, unsafeInFlight, monVars>>

MonitorNext == MonitorLoop \/ MonitorBroadcast \/ EmergencyStop

\* ------------------------------------------------------------ socket channel
\* Threads of SafetyMonitorServer inside the Status Worker's process; they run
\* while that process does.
ServerRunning == mpc \in {"loop", "read", "push"}

Whitespace == {" ", "\t", "\n", "\r"}

LowerLetters == <<"a", "e", "g", "l", "m", "o", "p", "r", "s", "t", "u">>
UpperLetters == <<"A", "E", "G", "L", "M", "O", "P", "R", "S", "T", "U">>

\* str.upper(), character by character
upper_char(c) ==
    IF \E i \in DOMAIN LowerLetters : LowerLetters[i] = c
    THEN UpperLetters[CHOOSE i \in DOMAIN LowerLetters : LowerLetters[i] = c]
    ELSE c

\* Variant of upper(): the text is left in the case it was received in.
upper_case_kept(str) == str

upper(str) == [i \in DOMAIN str |-> upper_char(str[i])]

RECURSIVE lstrip(_)
lstrip(str) ==
    IF str # <<>> /\ Head(str) \in Whitespace THEN lstrip(Tail(str)) ELSE str

RECURSIVE rstrip(_)
rstrip(str) ==
    IF str # <<>> /\ str[Len(str)] \in Whitespace
    THEN rstrip(SubSeq(str, 1, Len(str) - 1)) ELSE str

\* str.strip()
strip(str) == rstrip(lstrip(str))

CMD_STOP == <<"S", "T", "O", "P">>
CMD_RESUME == <<"R", "E", "S", "U", "M", "E">>
CMD_STATUS == <<"S", "T", "A", "T", "U", "S">>
CMD_LOG == <<"L", "O", "G">>

\* what a client sends in one recv(): single commands in either case, with
\* and without line ends and blanks, an unknown word, and two command lines
\* arriving together
RawInputs ==
    { <<"S", "T", "O", "P">>,
      <<"s", "t", "o", "p", "\r", "\n">>,
      <<" ", "S", "t", "O", "p", " ">>,
      <<"s", "t", " ", "o", "p">>,
      <<"r", "e", "s", "u", "m", "e", "\n">>,
      <<"s", "t", "a", "t", "u", "s">>,
      <<"l", "o", "g", "\n">>,
      <<"g", "o">>,
      <<"s", "t", "o", "p", "\n", "s", "t", "a", "t", "u", "s", "\n">> }

\* what client 1 sends in a session, by the name of its habit
InputsOf(habit) ==
    CASE habit = "any" -> RawInputs
      [] habit = "unknown" -> {<<"g", "o">>}

STOP_RESULT == "emergency stop executed"
RESUME_RESULT == "work resumed"

\* Variant of on_resume: a callback that clears stop_event is installed.
on_resume_installed == TRUE

\* server.on_resume is never assigned: it stays None
on_resume_set == FALSE

\* the response _process_command builds for a command
ResponseTo(command, log) ==
    CASE command = CMD_STOP ->
            [type |-> "response", result |-> STOP_RESULT, history |-> <<>>]
      [] command = CMD_RESUME ->
            [type |-> "response", result |-> RESUME_RESULT, history |-> <<>>]
      [] command = CMD_STATUS ->
            [type |-> "status", result |-> current_status.status, history |-> <<>>]
      [] command = CMD_LOG ->
            [type |-> "log", result |-> "", history |-> LastN(log, LOG_REPLY)]
      [] OTHER ->
            [type |-> "help", result |-> "", history |-> <<>>]

\* list.remove(client), guarded by `if client in self.clients`
Remove(list, c) == SelectSeq(list, LAMBDA x : x # c)

\* _log run by one thread while others may run it too: the append is one step;
\* when more than LOG_CAP entries are there the slice of the last LOG_CAP is
\* taken from the list as it is then, and stored in a later step of the thread
LongAfter == Len(log_history) + 1 > LogCap

LogAppend(thread, event_type) ==
    LET h == Append(log_history, event_type)
    IN  /\ log_history' = h
        /\ arrival' = _log(arrival, event_type)
        /\ trims' = IF Len(h) > LogCap
                    THEN [trims EXCEPT ![thread] = LastN(h, LogCap)]
                    ELSE trims

\* self.log_history = self.log_history[-100:], the assignment
LogStore(thread) ==
    /\ log_history' = trims[thread]
    /\ trims' = [trims EXCEPT ![thread] = <<>>]
    /\ UNCHANGED arrival

\* threading.Thread(target=self._handle_client, ...).start() and the welcome
HandlerStarts(c) ==
    IF c = 1
    THEN /\ hpc' = "recv"
         /\ sent' = [type |-> "welcome", result |-> "", history |-> <<>>]
         /\ UNCHANGED h2pc
    ELSE /\ h2pc' = "recv"
         /\ UNCHANGED <<hpc, sent>>

HandlerIdle(c) == IF c = 1 THEN hpc = "idle" ELSE h2pc = "idle"

\* a client connects or leaves while broadcast_status is in its loop
Churn ==
    churned' = (churned \/ mpc = "push")

\* _accept_clients: accept(), clients.append, _log("CONNECT"), handler thread
\* started, welcome sent
ServerAccept ==
    /\ ServerRunning
    /\ apc = 0
    /\ \E c \in env.clients :
          /\ HandlerIdle(c)
          /\ c \notin Range(clients)
          /\ clients' = Append(clients, c)
          /\ LogAppend("accept", "CONNECT")
          /\ IF LongAfter
             THEN /\ apc' = c
                  /\ UNCHANGED <<hpc, sent, h2pc>>
             ELSE /\ apc' = 0
                  /\ HandlerStarts(c)
    /\ Churn
    /\ UNCHANGED <<simulate, env, stop_event, camera_ready, cells, supVars,
                   visVars, robVars, unsafeInFlight, mpc, mHd, current_status,
                   rx, response, bi, dead, pushed, audience>>

\* _accept_clients, from the assignment that ends _log("CONNECT")
ServerAcceptStore ==
    /\ ServerRunning
    /\ apc # 0
    /\ LogStore("accept")
    /\ HandlerStarts(apc)
    /\ apc' = 0
    /\ UNCHANGED <<simulate, env, stop_event, camera_ready, cells, supVars,
                   visVars, robVars, unsafeInFlight, mpc, mHd, current_status,
                   rx, response, clients, pushVars>>

\* _process_command after its _log("COMMAND"): the callback of STOP
\* (emergency_stop: stop_event.set()) or of RESUME, and the response built
Processed(command, log) ==
    /\ stop_event' = IF command = CMD_STOP THEN TRUE
                     ELSE IF command = CMD_RESUME /\ on_resume_set
                          THEN FALSE
                          ELSE stop_event
    /\ response' = ResponseTo(command, log)
    /\ hpc' = "send"

\* _handle_client: data = client.recv(1024); command = data.decode().strip()
\* .upper(); _process_command up to the response it builds
ServerCommand ==
    /\ ServerRunning
    /\ hpc = "recv"
    /\ \E data \in InputsOf(env.inputs) :
          /\ rx' = data
          /\ LogAppend("h1", "COMMAND")
          /\ IF LongAfter
             THEN /\ hpc' = "command_store"
                  /\ UNCHANGED <<stop_event, response>>
             ELSE Processed(upper(strip(data)), log_history')
    /\ UNCHANGED <<simulate, env, camera_ready, cells, supVars, visVars,
                   robVars, unsafeInFlight, mpc, mHd, current_status, sent,
                   conVars, pushVars>>

\* _process_command, from the assignment that ends _log("COMMAND")
ServerCommandStore ==
    /\ ServerRunning
    /\ hpc = "command_store"
    /\ LogStore("h1")
    /\ Processed(upper(strip(rx)), log_history')
    /\ UNCHANGED <<simulate, env, camera_ready, cells, supVars, visVars,
                   robVars, unsafeInFlight, mpc, mHd, current_status, rx, sent,
                   conVars, pushVars>>

\* _process_command: self._send_to_client(client, response)
ServerRespond ==
    /\ ServerRunning
    /\ hpc = "send"
    /\ sent' = response
    /\ response' = NoMessage
    /\ rx' = <<>>
    /\ hpc' = "recv"
    /\ UNCHANGED <<simulate, env, stop_event, camera_ready, cells, supVars,
                   visVars, robVars, unsafeInFlight, mpc, mHd, current_status,
                   logVars, conVars, pushVars>>

\* the end of a handler thread: the client is removed from self.clients and is
\* no longer one the current update is owed to
Leaves(c) ==
    /\ clients' = Remove(clients, c)
    /\ audience' = audience \ {c}
    /\ Churn

\* _handle_client: recv() returns no data or raises; the client is removed,
\* _log("DISCONNECT"), client.close()
ServerDisconnect ==
    /\ ServerRunning
    /\ hpc = "recv"
    /\ Leaves(1)
    /\ LogAppend("h1", "DISCONNECT")
    /\ hpc' = IF LongAfter THEN "disconnect_store" ELSE "idle"
    /\ UNCHANGED <<simulate, env, stop_event, camera_ready, cells, supVars,
                   visVars, robVars, unsafeInFlight, mpc, mHd, current_status,
                   rx, response, sent, apc, h2pc, bi, dead, pushed>>

\* _handle_client, from the assignment that ends _log("DISCONNECT")
ServerDisconnectStore ==
    /\ ServerRunning
    /\ hpc = "disconnect_store"
    /\ LogStore("h1")
    /\ hpc' = "idle"
    /\ UNCHANGED <<simulate, env, stop_event, camera_ready, cells, supVars,
                   visVars, robVars, unsafeInFlight, mpc, mHd, current_status,
                   rx, response, sent, conVars, pushVars>>

\* _handle_client of the client that only listens: its recv() times out until
\* it returns no data or raises
ListenerDisconnect ==
    /\ ServerRunning
    /\ h2pc = "recv"
    /\ Leaves(2)
    /\ LogAppend("h2", "DISCONNECT")
    /\ h2pc' = IF LongAfter THEN "disconnect_store" ELSE "idle"
    /\ UNCHANGED <<simulate, env, stop_event, camera_ready, cells, supVars,
                   visVars, robVars, unsafeInFlight, mpc, mHd, current_status,
                   cmdVars, apc, bi, dead, pushed>>

ListenerDisconnectStore ==
    /\ ServerRunning
    /\ h2pc = "disconnect_store"
    /\ LogStore("h2")
    /\ h2pc' = "idle"
    /\ UNCHANGED <<simulate, env, stop_event, camera_ready, cells, supVars,
                   visVars, robVars, unsafeInFlight, mpc, mHd, current_status,
                   cmdVars, clients, apc, pushVars>>

\* broadcast_status: for client in self.clients: sendall, or dead_clients.append
\* when it raises; after the loop the dead clients are removed
BroadcastPush ==
    /\ mpc = "push"
    /\ IF bi < Len(clients)
       THEN /\ LET client == clients[bi + 1]
               IN  \/ /\ pushed' = pushed \cup {client}
                      /\ UNCHANGED dead
                   \/ /\ dead' = Append(dead, client)
                      /\ UNCHANGED pushed
            /\ bi' = bi + 1
            /\ UNCHANGED <<mpc, clients, audience, churned>>
       ELSE /\ clients' = SelectSeq(clients, LAMBDA x : x \notin Range(dead))
            /\ mpc' = "loop"
            /\ bi' = 0
            /\ dead' = <<>>
            /\ pushed' = {}
            /\ audience' = {}
            /\ churned' = FALSE
    /\ UNCHANGED <<simulate, env, stop_event, camera_ready, cells, supVars,
                   visVars, robVars, unsafeInFlight, mHd, current_status,
                   cmdVars, logVars, apc, h2pc>>

ServerNext ==
    \/ ServerAccept \/ ServerAcceptStore
    \/ ServerCommand \/ ServerCommandStore \/ ServerRespond
    \/ ServerDisconnect \/ ServerDisconnectStore
    \/ BroadcastPush

ListenerNext == ListenerDisconnect \/ ListenerDisconnectStore

\* ------------------------------------------------------------ calibration object
\* The methods of a CameraCalibration object, called in any order on the object
\* as constructed.
\* pixels the distance is asked between: the image centre, the pen's default
\* position, and points to the right of and beside them
DistancePoints == {<<640, 360>>, <<640, 400>>, <<740, 360>>, <<600, 380>>}
\* depths handed over: none, 0.4 m and 1 m
DistanceDepths == {NoDepth, 4000, 10000}

CalibrationCalibrate ==
    /\ \E profile \in Profiles :
         \E r \in {calibrate_from_realsense(calibration, profile)} :
            /\ calibration' = r.self
            /\ cal_call' = [method |-> "calibrate_from_realsense",
                            value |-> r.value]
    /\ UNCHANGED <<simulate, env, stop_event, camera_ready, cells, supVars,
                   vpc, warm, is_workspace_defined, workspace_corners,
                   min_distance, palm_uv, current_hand_in_ws, vstatus, detections, frame_hd,
                   robVars, unsafeInFlight, monVars>>

CalibrationDistance ==
    /\ \E point1_uv \in DistancePoints, point2_uv \in DistancePoints :
         \E depth1 \in DistanceDepths, depth2 \in DistanceDepths :
            cal_call' = [method |-> "calculate_3d_distance",
                         point1_uv |-> point1_uv, point2_uv |-> point2_uv,
                         depth1 |-> depth1, depth2 |-> depth2,
                         value |-> calculate_3d_distance(calibration,
                                      point1_uv, point2_uv, depth1, depth2)]
    /\ UNCHANGED <<simulate, env, stop_event, camera_ready, cells, supVars,
                   vpc, warm, is_workspace_defined, workspace_corners,
                   min_distance, palm_uv, current_hand_in_ws, vstatus,
                   calibration, detections, frame_hd, robVars, unsafeInFlight, monVars>>

\* ------------------------------------------------------------ specification
\* The whole session: all four processes.
Next == SupNext \/ VisionNext \/ RobotNext \/ MonitorNext

Spec == Init /\ [][Next]_vars

\* The Motion Worker against the Perception Worker, every distance class.  The
\* Status Worker's loop is left out: its steps change mpc, mHd and
\* current_status only, which no other process reads; its server's STOP
\* command is kept.
NextMotion == SupNext \/ VisionNext \/ RobotNext \/ EmergencyStop

SpecMotion == InitWide /\ [][NextMotion]_vars

\* The same processes in the sessions started with options.
SpecOptions == InitOptions /\ [][NextMotion]_vars

\* The Status Worker against the Perception Worker, every distance class.  The
\* Motion Worker is started and left waiting: the status decision reads the
\* hand cells only.
NextStatus == SupNext \/ VisionNext \/ MonitorNext

SpecStatus == InitWide /\ [][NextStatus]_vars


\* The whole program with the supervisor scheduled fairly: main is an
\* operating-system process of its own and each of its blocking calls has a
\* timeout (wait(timeout=30), sleep(0.5), join(timeout=5)).  Nothing is
\* assumed about signals: one may come or not.
SpecShutdown == InitBare /\ [][Next]_vars /\ WF_vars(SupBody)

\* The Motion Worker against the Perception Worker with the Motion Worker
\* scheduled fairly: it is an operating-system process of its own, its polls
\* sleep CHECK_INTERVAL and its motion primitives return or raise.
SpecResume == InitResume /\ [][NextMotion]_vars /\ WF_vars(RobotNext)

\* The Status Worker with its socket channel, under the supervisor.  The other
\* two workers are started and left at their first step: the channel reads
\* current_status and writes stop_event only.
NextServer == SupNext \/ MonitorLoop \/ MonitorBroadcast \/ ServerNext

SpecServer == InitBare /\ [][NextServer]_vars

\* The socket channel with two clients, one of them only listening: the accept
\* thread, the two handler threads and the Status Worker's broadcast.
NextChannel == NextServer \/ ListenerNext

SpecChannel == InitChannel /\ [][NextChannel]_vars

\* The Perception Worker alone under the supervisor, every marker layout: the
\* zone and the palm test are local to the Perception Worker, which reads no
\* cell and no state of another worker.
NextZone == SupNext \/ VisionNext

SpecZone == InitZone /\ [][NextZone]_vars

\* The calibration object alone: its methods on every outcome of the driver and
\* on every pair of pixels and depths of the bounded sets.
NextCalibration == CalibrationCalibrate \/ CalibrationDistance

SpecCalibration == InitBare /\ [][NextCalibration]_vars

\* ------------------------------------------------------------ properties
\* isSafe() as the specification states it, on the values read (-1: not read)
IsSafe(hd, dist) == hd = 0 \/ dist >= SAFETY_DISTANCE_M

\* the three-way classification as the specification states it
Classify(d) ==
    IF d < SAFETY_DISTANCE_M THEN DANGER
    ELSE IF d < SAFETY_CLEAR_DISTANCE_M THEN CAUTION
    ELSE SAFE

Rank(st) == CASE st = DANGER -> 0 [] st = CAUTION -> 1 [] st = SAFE -> 2

GatedInFlight == motion.kind # "none" /\ motion.gated

\* the step in which a paused Motion Worker resumes
Resume == cells.robot_paused = 1 /\ cells'.robot_paused = 0

\* C1: a gated motion primitive is in flight only if the isSafe() evaluation
\* made just before it, in the same iteration of safe_movel / safe_move, was
\* true on the values it read: no hand, or a distance of at least 0.20 m.
C1_GatedMotionOnlyAfterSafeEvaluation ==
    GatedInFlight => (rdHd \in {0, 1} /\ IsSafe(rdHd, rdDist) /\ gpc = "moving")

\* C1 witness: a gated motion issued with a hand read at exactly 0.20 m
C1_Witness ==
    GatedInFlight /\ rdHd = 1 /\ rdDist = SAFETY_DISTANCE_M

\* C2: within a gated move that has paused, robot_paused is back to 0 (the
\* motion was resumed) only if some poll made after the pause read
\* hand_detected == 0 or hand_distance >= 0.25 m.
C2_ResumeOnlyAfterClearPoll ==
    (wasPaused /\ (cells.robot_paused = 0 \/ GatedInFlight)) => clearSeen

\* C2 witness: a resumed motion, after a pause and a clearing poll
C2_Witness ==
    wasPaused /\ clearSeen /\ GatedInFlight /\ cells.robot_paused = 0

\* C3 as stated: at every resume after a pause the shared distance cell holds
\* at least 0.25 m.
C3_DistanceCellClearAtResume ==
    [][Resume => cells.hand_distance >= SAFETY_CLEAR_DISTANCE_M]_vars

\* C3 amended: at every resume after a pause, a poll made after the pause has
\* read no hand or a distance of at least 0.25 m, and the isSafe() evaluation
\* just before the resume read no hand or a distance of at least 0.20 m.
C3_ResumeAfterClearPollAndSafeEvaluation ==
    [][Resume => (clearSeen /\ rdHd \in {0, 1} /\ IsSafe(rdHd, rdDist))]_vars

\* C3 witness: a resumed motion whose last read distance is below 0.25 m
C3_Witness ==
    /\ wasPaused /\ GatedInFlight /\ cells.robot_paused = 0
    /\ rdHd = 1 /\ rdDist < SAFETY_CLEAR_DISTANCE_M

\* C4 as stated: with a hand detected, the status the Status Worker publishes
\* and the status the Perception Worker computes (vision_process, and
\* vision_process_simulate in a simulated session) are the three-way
\* classification of the distance (DANGER below 0.20 m, CAUTION from 0.20 m and
\* below 0.25 m, SAFE from 0.25 m), and the classification is monotone.
C4_StatusIsClassification ==
    /\ (current_status.status # "none" /\ current_status.hand_detected) =>
          current_status.status =
             IF current_status.hand_distance_cm = -1 THEN SAFE
             ELSE Classify(current_status.hand_distance_cm)
    /\ (vpc = "loop" /\ vstatus # "none" /\ HandFound) =>
          vstatus = Classify(min_distance)
    /\ \A d1, d2 \in Dists \cup {NO_HAND_DISTANCE} :
          d1 <= d2 => /\ Rank(MonitorStatus(TRUE, d1)) <= Rank(MonitorStatus(TRUE, d2))
                      /\ Rank(VisionStatus(d1)) <= Rank(VisionStatus(d2))

\* C5 as stated: every motion primitive in flight is a gated one, issued
\* after an isSafe() evaluation that was true.
C5_EveryMotionGated ==
    motion.kind # "none" =>
        (motion.gated /\ rdHd \in {0, 1} /\ IsSafe(rdHd, rdDist))

\* C6 as stated: a gated motion primitive during whose flight an unsafe frame
\* (hand detected, distance below 0.20 m) was published does not complete
\* without the worker having marked robot_paused.
C6_UnsafeInFlightPauses ==
    [][(MotionComplete /\ motion.gated /\ unsafeInFlight) =>
           cells.robot_paused = 1]_vars

PerceptionCells ==
    {"hand_detected", "hand_distance", "pen_pixel_x", "pen_pixel_y",
     "pen_detected", "hand_in_workspace", "is_slowdown", "calib_fx", "calib_fy",
     "calib_cx", "calib_cy", "calib_ok", "aruco_count", "workspace_defined"}

MotionCells == {"robot_paused", "current_progress"}

\* C7: a Perception cell changes only in a step of the Perception Worker, a
\* Motion cell (robot_paused, progress) only in a step of the Motion Worker,
\* and no step of the Status Worker or of the supervisor changes a cell.
C7_SingleWriter ==
    [][/\ (\E c \in PerceptionCells : cells'[c] # cells[c]) => VisionNext
       /\ (\E c \in MotionCells : cells'[c] # cells[c]) => RobotNext
       /\ \A c \in CellNames \ (PerceptionCells \cup MotionCells) :
             cells'[c] = cells[c]
       /\ (MonitorNext \/ SupNext) => cells' = cells]_vars

\* C7 witness: both workers have written their cells and the Status Worker
\* has published
C7_Witness ==
    /\ cells.robot_paused = 1 /\ cells.current_progress > 0
    /\ cells.hand_detected = 1 /\ cells.calib_ok = 1
    /\ current_status.status = DANGER

\* C8 as stated: once the supervisor's wait for cameraReady is over with
\* cameraReady unset, the Motion Worker and the Status Worker are not started.
C8_TimeoutAbortsStartup ==
    (spc \notin {"start_vision", "wait_camera"} /\ ~camera_ready) =>
        (rpc = "not_started" /\ mpc = "not_started")

\* C9 as stated: a Motion Worker waiting for cameraReady, which can no longer
\* be set (the Perception Worker has ended without setting it), can leave its
\* wait.
C9_MotionWaitIsBounded ==
    (rpc = "wait_camera" /\ ~camera_ready /\ ~Alive(vpc)) => ENABLED RobotNext

\* C10: cameraReady, once set, stays set; it becomes set only in the step of
\* the Perception Worker that ends its start-up (vision_process: after all
\* warm-up frame waits) and enters the main loop, hence at most once.
C10_CameraReadyOneShot ==
    [][/\ camera_ready => camera_ready'
       /\ (~camera_ready /\ camera_ready') =>
             /\ vpc \in {"warmup", "sim_ready"} /\ vpc' = "loop"
             /\ ~simulate => warm = warmupCalls]_vars

\* C10 witness: the session has ended after a camera warm-up, cameraReady set
C10_Witness ==
    camera_ready /\ ~simulate /\ warm = warmupCalls /\ spc = "done"


NoWorkerAlive == ~Alive(vpc) /\ ~Alive(rpc) /\ ~Alive(mpc)

\* C11 as stated: once stop_event is set, every worker that is alive can take
\* a step of its own (it is not blocked in a call that ignores stop_event), in
\* every state it can be in, the Motion Worker's wait for cameraReady included.
C11_StopObservedFromEveryState ==
    stop_event =>
        /\ Alive(vpc) => ENABLED VisionNext
        /\ Alive(rpc) => ENABLED RobotNext
        /\ Alive(mpc) => ENABLED MonitorNext

WorkerTerminatedOnlyBy(pc, pcn, at) ==
    (pcn = "terminated" /\ pc # "terminated") =>
        (stop_event /\ Alive(pc) /\ spc = at)

\* C12: a worker is terminated only by the supervisor's finally loop, after
\* stop_event is set, at that worker's turn and only if it is still alive
\* then; and once stop_event is set the session eventually reaches a state in
\* which no worker is alive.
C12_SupervisorShutdown ==
    /\ [][/\ WorkerTerminatedOnlyBy(vpc, vpc', "join_vision")
          /\ WorkerTerminatedOnlyBy(rpc, rpc', "join_robot")
          /\ WorkerTerminatedOnlyBy(mpc, mpc', "join_monitor")]_vars
    /\ (stop_event ~> NoWorkerAlive)

\* C12 witness: the session is over, one worker left on its own and another
\* was terminated after its grace period
C12_Witness ==
    /\ spc = "done" /\ stop_event /\ NoWorkerAlive
    /\ rpc = "terminated" /\ mpc = "exited"


\* the STOP command in any letter case, surrounded by whitespace or not
IsStopText(data) ==
    \E i \in 1..Len(data) :
        /\ i + 3 <= Len(data)
        /\ data[i] \in {"s", "S"} /\ data[i + 1] \in {"t", "T"}
        /\ data[i + 2] \in {"o", "O"} /\ data[i + 3] \in {"p", "P"}
        /\ \A k \in 1..(i - 1) : data[k] \in Whitespace
        /\ \A k \in (i + 4)..Len(data) : data[k] \in Whitespace

\* C13: when the data received is the STOP command, in any letter case and
\* with or without surrounding whitespace, stop_event is already set when the
\* response to that command is sent, and the response is the STOP response.
C13_StopSetBeforeResponse ==
    [][(hpc = "send" /\ hpc' = "recv" /\ IsStopText(rx)) =>
           (stop_event /\ sent'.result = STOP_RESULT)]_vars

\* C13 witness: a mixed-case STOP with surrounding blanks is about to be
\* answered and stop_event is set
C13_Witness ==
    /\ hpc = "send" /\ rx = <<" ", "S", "t", "O", "p", " ">>
    /\ response.result = STOP_RESULT /\ stop_event

\* C14 as stated: when a RESUME command is handled right after a STOP command
\* (the last response sent is the STOP response), stop_event, the condition
\* the STOP set, is cleared.
C14_ResumeClearsStop ==
    (hpc = "send" /\ response.result = RESUME_RESULT
        /\ sent.result = STOP_RESULT) => ~stop_event

\* the cell values the Perception Worker writes for a frame without a hand
AbsentHand(c) ==
    /\ c.hand_detected = 0
    /\ c.hand_distance = NO_HAND_DISTANCE
    /\ c.hand_in_workspace = 0
    /\ c.is_slowdown = 0

\* C15: absent hand is a sentinel state.  The step that ends a frame in which
\* no hand was found leaves hand_detected = 0, hand_distance = 999.0,
\* hand_in_workspace = 0 and is_slowdown = 0 in the cells; a status the Status
\* Worker broadcasts from a snapshot with hand_detected = 0 is SAFE; and an
\* evaluation of check_safety() that read hand_detected = 0 answers safe.
C15_AbsentHandIsSentinel ==
    /\ [][(VisionWriteFlags /\ ~HandFound) => AbsentHand(cells')]_vars
    /\ [][(MonitorBroadcast /\ ~mHd) => current_status'.status = SAFE]_vars
    /\ [][(GateLoop /\ ~stop_event /\ rdHd' = 0) => gpc' = "safe"]_vars
    /\ [](\A d \in Dists \cup {NO_HAND_DISTANCE} :
              check_safety(0, d) /\ IsSafe(0, d))

\* a frame has ended in which a palm was in the zone but no fingertip distance
\* was found; the gate has answered safe on hand_detected = 0 and the Status
\* Worker has broadcast SAFE for a snapshot without a hand
C15_Witness ==
    /\ vpc = "loop"
    /\ ~HandFound
    /\ current_hand_in_ws
    /\ AbsentHand(cells)
    /\ gpc = "safe" /\ rdHd = 0
    /\ current_status.status = SAFE /\ ~current_status.hand_detected

\* the hand of the frame is inside the defined zone (simulation: the draw)
HandInZone ==
    IF simulate
    THEN current_hand_in_ws
    ELSE /\ is_workspace_defined
         /\ is_point_in_workspace([corners |-> workspace_corners,
                                    defined |-> is_workspace_defined], palm_uv)

\* the frame the Perception Worker is about to process can find a hand in the
\* distance class st, in the zone (sl) or out of it: the inputs VisionFrame and
\* VisionSimFrame draw, through update() and is_point_in_workspace()
FrameCanYield(st, sl) ==
    \E d \in env.dists :
       /\ d < INF
       /\ Classify(d) = st
       /\ IF simulate
          THEN sl \in env.draws
          ELSE \E mk \in MarkerFramesOf(env.markers), palm \in env.palms :
                  \E ws \in {update([corners |-> workspace_corners,
                                      defined |-> is_workspace_defined], mk)} :
                     sl = (ws.defined /\ is_point_in_workspace(ws, palm))

C17_ZoneRetention ==
    [][(workspace_corners' # workspace_corners
            \/ is_workspace_defined' # is_workspace_defined)
          => (/\ vpc = "loop" /\ vpc' = "w_dist" /\ ~simulate
              /\ cells'.aruco_count = 4)]_vars

\* a frame with three markers has been processed after the square was
\* committed: the zone is still defined and still the square
C17_Witness ==
    /\ vpc = "w_dist"
    /\ cells.aruco_count = 3
    /\ cells.workspace_defined = 1
    /\ is_workspace_defined
    /\ workspace_corners = << <<0, 0>>, <<4, 0>>, <<4, 4>>, <<0, 4>> >>

\* ---- plane geometry of the zone claims, on integer pixel coordinates
Orient(a, b, c) == Cross(<<b[1] - a[1], b[2] - a[2]>>, <<c[1] - a[1], c[2] - a[2]>>)

\* twice the area enclosed by the closed path, positive when the path runs
\* clockwise on the image (x to the right, y downwards)
SignedArea2(poly) ==
    Cross(poly[1], poly[2]) + Cross(poly[2], poly[3])
        + Cross(poly[3], poly[4]) + Cross(poly[4], poly[1])

\* the closed segments a-b and c-d have a point in common
SegmentsMeet(a, b, c, d) ==
    \/ /\ Orient(a, b, c) * Orient(a, b, d) < 0
       /\ Orient(c, d, a) * Orient(c, d, b) < 0
    \/ OnSegment(c, a, b) \/ OnSegment(d, a, b)
    \/ OnSegment(a, c, d) \/ OnSegment(b, c, d)

\* no two edges of the closed path meet except consecutive ones at their
\* common corner
NotSelfIntersecting(poly) ==
    /\ ~SegmentsMeet(poly[1], poly[2], poly[3], poly[4])
    /\ ~SegmentsMeet(poly[2], poly[3], poly[4], poly[1])
    /\ \A n \in 1..4 :
          LET a == poly[n]
              b == poly[Next4(n)]
              c == poly[Next4(Next4(n))]
          IN  a # b /\ ~OnSegment(c, a, b) /\ ~OnSegment(a, b, c)

FirstHasLowestSum(poly) ==
    \A n \in 1..4 : poly[1][1] + poly[1][2] <= poly[n][1] + poly[n][2]

\* C18: corner-order invariant.  Whenever the zone is defined its four corners
\* run clockwise on the image, the first is one with the lowest x + y, and the
\* polygon does not intersect itself.
C18_CornerOrder ==
    is_workspace_defined =>
        /\ SignedArea2(workspace_corners) > 0
        /\ FirstHasLowestSum(workspace_corners)
        /\ NotSelfIntersecting(workspace_corners)

\* p lies in the closed triangle a, b, c
InTriangle(p, a, b, c) ==
    LET o1 == Orient(a, b, p)
        o2 == Orient(b, c, p)
        o3 == Orient(c, a, p)
    IN  (o1 >= 0 /\ o2 >= 0 /\ o3 >= 0) \/ (o1 <= 0 /\ o2 <= 0 /\ o3 <= 0)

\* the four points are the corners of a convex quadrilateral: none of them
\* lies in the triangle of the other three
ConvexQuadrilateral(pts) ==
    /\ ~InTriangle(pts[1], pts[2], pts[3], pts[4])
    /\ ~InTriangle(pts[2], pts[1], pts[3], pts[4])
    /\ ~InTriangle(pts[3], pts[1], pts[2], pts[4])
    /\ ~InTriangle(pts[4], pts[1], pts[2], pts[3])

Permutations4 == {f \in [1..4 -> 1..4] : \A i, j \in 1..4 : f[i] = f[j] => i = j}

\* C19: permutation invariance of the corner sorting.  When the committed
\* corners are those of a convex quadrilateral, sorting them in any of the 24
\* orders gives the committed polygon again, corner by corner; the committed
\* polygon is itself the sort of the order in which the frame reported them.
C19_PermutationInvariance ==
    (is_workspace_defined /\ ConvexQuadrilateral(workspace_corners)) =>
        \A f \in Permutations4 :
            _sort_corners_clockwise(<<workspace_corners[f[1]], workspace_corners[f[2]],
                                      workspace_corners[f[3]], workspace_corners[f[4]]>>)
                = workspace_corners

\* the square has been committed from a frame that reported its corners in
\* another order
C19_Witness ==
    /\ vpc = "w_dist"
    /\ cells.aruco_count = 4
    /\ is_workspace_defined
    /\ ConvexQuadrilateral(workspace_corners)
    /\ workspace_corners = << <<0, 0>>, <<4, 0>>, <<4, 4>>, <<0, 4>> >>
    /\ workspace_corners # marker_centers(SquareMarkers)

\* p lies on the closed segment a-b: on its line and between its ends
OnEdge(p, a, b) ==
    /\ Orient(a, b, p) = 0
    /\ (p[1] - a[1]) * (p[1] - b[1]) + (p[2] - a[2]) * (p[2] - b[2]) <= 0

\* the number of turns the closed path makes about p (p not on the path)
WindingStep(p, a, b) ==
    IF a[2] <= p[2]
    THEN IF b[2] > p[2] /\ Orient(a, b, p) > 0 THEN 1 ELSE 0
    ELSE IF b[2] <= p[2] /\ Orient(a, b, p) < 0 THEN -1 ELSE 0

Winding(poly, p) ==
    WindingStep(p, poly[1], poly[2]) + WindingStep(p, poly[2], poly[3])
        + WindingStep(p, poly[3], poly[4]) + WindingStep(p, poly[4], poly[1])

\* p is strictly inside the polygon or on its boundary
InsideOrOn(poly, p) ==
    \/ \E n \in 1..4 : OnEdge(p, poly[n], poly[Next4(n)])
    \/ Winding(poly, p) # 0

\* p is outside the bounding box of the polygon
OutsideBox(poly, p) ==
    \/ \A n \in 1..4 : p[1] < poly[n][1]
    \/ \A n \in 1..4 : p[1] > poly[n][1]
    \/ \A n \in 1..4 : p[2] < poly[n][2]
    \/ \A n \in 1..4 : p[2] > poly[n][2]

\* the pixels around the marker grid
GridPoints == {<<u, v>> : u \in -1..7, v \in -1..5}

\* the polygon and its centroid, both four times enlarged
Times4(poly) ==
    <<<<4 * poly[1][1], 4 * poly[1][2]>>, <<4 * poly[2][1], 4 * poly[2][2]>>,
      <<4 * poly[3][1], 4 * poly[3][2]>>, <<4 * poly[4][1], 4 * poly[4][2]>>>>

Centroid4(poly) ==
    <<poly[1][1] + poly[2][1] + poly[3][1] + poly[4][1],
      poly[1][2] + poly[2][2] + poly[3][2] + poly[4][2]>>

\* C20: containsPoint.  In the state a processed frame leaves, with no zone
\* defined is_point_in_workspace answers false for every point; with a zone
\* defined it answers true exactly for the points strictly inside or on the
\* boundary of the committed polygon, so true for the centroid of the corners
\* and false for every point outside their bounding box; and the palm test of
\* the frame is that answer for the palm landmark.
C20_ContainsPoint ==
    (vpc = "w_dist" /\ ~simulate) =>
        /\ \A p \in GridPoints :
              \E answer \in {is_point_in_workspace(
                                  [corners |-> workspace_corners,
                                   defined |-> is_workspace_defined], p)} :
                 IF ~is_workspace_defined
                 THEN ~answer
                 ELSE /\ answer <=> InsideOrOn(workspace_corners, p)
                      /\ OutsideBox(workspace_corners, p) => ~answer
        /\ is_workspace_defined =>
              is_point_in_workspace([corners |-> Times4(workspace_corners),
                                     defined |-> TRUE],
                                    Centroid4(workspace_corners))
        /\ current_hand_in_ws =
              (is_workspace_defined /\ InsideOrOn(workspace_corners, palm_uv))

\* a frame has been processed whose palm landmark lies on an edge of the
\* committed square: the test has answered true
C20_Witness ==
    /\ vpc = "w_dist"
    /\ ~simulate
    /\ is_workspace_defined
    /\ workspace_corners = << <<0, 0>>, <<4, 0>>, <<4, 4>>, <<0, 4>> >>
    /\ palm_uv = <<4, 2>>
    /\ current_hand_in_ws

\* C21: a motion/driver fault is fatal to the Motion Worker only.  The
\* supervisor does not stop the session because a Motion Worker that has had a
\* driver fault is gone: the step of its supervision loop that sets stop_event
\* (on which the Perception Worker and the Status Worker end, or are
\* terminated) is not taken after a fault.
C21_FaultFatalToMotionWorkerOnly ==
    [][~(/\ faulted
         /\ spc = "supervise" /\ spc' = "finally"
         /\ ~stop_event /\ stop_event')]_vars

\* C22: return to home before exit.  After the driver initialisation the
\* Motion Worker exits only out of the return-to-home move; while that move is
\* in flight it is movej to JOINT_HOME; and once it is issued no other motion
\* primitive is issued.
C22_ReturnHomeBeforeExit ==
    /\ [][(~simulate /\ rpc # "exited" /\ rpc' = "exited")
             => rpc \in {"init", "return_moving"}]_vars
    /\ [](rpc = "return_moving" => motion.kind = "movej_home")
    /\ [][(rpc \in {"return_moving", "exited", "terminated"})
             => motion' \in {motion, NoMotion}]_vars

\* the return-to-home move is in flight after a driver fault in the
\* trajectory, with no stop requested
C22_Witness ==
    /\ rpc = "return_moving"
    /\ motion.kind = "movej_home"
    /\ faulted
    /\ ri > 0
    /\ ~stop_event

\* C29: a frame-acquisition failure skips the cycle without terminating the
\* Perception Worker.  With no stop requested, a step of the worker in its main
\* loop leaves it in the loop or processing a frame; it does not end the worker.
C29_FrameFailureSkipsCycle ==
    [][(vpc = "loop" /\ ~stop_event /\ vpc' # vpc) => vpc' = "w_dist"]_vars

\* C30: paused-flag invariant.  While the Motion Worker polls in the safety
\* wait robot_paused is 1; robot_paused goes back to 0 only in the step of the
\* Motion Worker that follows a true check_safety() evaluation and issues the
\* gated motion; and robot_paused is 0 while a gated motion primitive is in
\* flight.
C30_PausedFlag ==
    /\ [](gpc \in {"wait", "wait_dist"} => cells.robot_paused = 1)
    /\ [][Resume => (/\ gpc = "safe" /\ gpc' = "moving"
                     /\ check_safety(rdHd, rdDist)
                     /\ motion'.gated)]_vars
    /\ [](GatedInFlight => cells.robot_paused = 0)

\* the worker polls in the safety wait of a drawing segment, marked paused,
\* after earlier segments were issued
C30_Witness ==
    /\ rpc = "draw_gate"
    /\ gpc = "wait_dist"
    /\ ri > 0
    /\ cells.robot_paused = 1
    /\ ~stop_event

\* C28: a failed halt is non-fatal and logged.  When drl_script_stop has raised
\* in an unsafe gate, the Motion Worker goes on to the safety wait with
\* robot_paused = 1, and the status event log has received an entry.
C28_FailedHaltIsLogged ==
    [][(gpc = "halt_failed" /\ gpc' # gpc) =>
          /\ cells'.robot_paused = 1
          /\ gpc' = "wait"
          /\ log_history' # log_history]_vars


\* ---- calibration
\* r is the floor of the square root of n
IsRootOf(r, n) == r >= 0 /\ r * r <= n /\ n < (r + 1) * (r + 1)

\* the Perception Worker has run its calibration step
Calibrated == ~simulate /\ vpc \in {"warmup", "loop", "w_dist", "w_flags"}

\* C26: calibrate_from_realsense returns true when the driver's intrinsics are
\* read and false when they cannot be read, in which case the defaults are in
\* place; the object is calibrated after either outcome, and the Perception
\* Worker publishes calib_ok = 1 with the object's intrinsics.
C26_CalibrationFallback ==
    /\ [][(vpc = "calibrate" /\ vpc' = "warmup") =>
            /\ cal_call'.method = "calibrate_from_realsense"
            /\ cal_call'.value = env.intrinsics
            /\ cal_call'.value =>
                  CalibCells(calibration') = CalibCells(DriverIntrinsics)
            /\ ~cal_call'.value =>
                  CalibCells(calibration') = CalibCells(DefaultIntrinsics)
            /\ calibration'.is_calibrated
            /\ cells'.calib_ok = 1
            /\ \A c \in DOMAIN CalibCells(calibration') :
                  cells'[c] = CalibCells(calibration')[c]]_vars
    /\ [](Calibrated => (calibration.is_calibrated /\ cells.calib_ok = 1))

C26_Witness ==
    /\ Calibrated
    /\ cal_call = [method |-> "calibrate_from_realsense", value |-> FALSE]
    /\ calibration.is_calibrated
    /\ cells.calib_ok = 1
    /\ cells.calib_fx = DefaultIntrinsics.fx

\* the squared pixel distance of a call, times the squared ratio
RatioSquare(c) ==
    Square(PIXEL_TO_CM_RATIO)
      * (Square(c.point1_uv[1] - c.point2_uv[1])
         + Square(c.point1_uv[2] - c.point2_uv[2]))

\* the squared length of the difference of two 3D points
NormSquare(p, q) ==
    Square(p[1] - q[1]) + Square(p[2] - q[2]) + Square(p[3] - q[3])

\* C27: a distance asked of an object for which pixel_to_3d yields no point is
\* the pixel distance times the ratio; asked of an object for which it yields
\* both points it is the Euclidean norm of their difference; the first case is
\* the uncalibrated object's, the second the calibrated one's.
C27_DistancePaths ==
    cal_call.method = "calculate_3d_distance" =>
        LET c == cal_call
            p1 == pixel_to_3d(calibration, c.point1_uv[1], c.point1_uv[2], c.depth1)
            p2 == pixel_to_3d(calibration, c.point2_uv[1], c.point2_uv[2], c.depth2)
        IN  /\ (p1 = None3D \/ p2 = None3D) <=> ~calibration.is_calibrated
            /\ IF p1 = None3D \/ p2 = None3D
               THEN IsRootOf(c.value, RatioSquare(c))
               ELSE IsRootOf(c.value, NormSquare(p1, p2))

C27_Witness ==
    /\ cal_call.method = "calculate_3d_distance"
    /\ ~calibration.is_calibrated
    /\ cal_call.point1_uv = <<740, 360>>
    /\ cal_call.point2_uv = <<640, 360>>
    /\ cal_call.depth1 # cal_call.depth2
    /\ cal_call.value = 100 * PIXEL_TO_CM_RATIO

\* ---- command protocol
\* index of the first line feed of a text (one past its end if there is none)
RECURSIVE LineEnd(_, _)
LineEnd(str, i) ==
    IF i > Len(str) \/ str[i] = "\n" THEN i ELSE LineEnd(str, i + 1)

\* the command lines of a received text, blank lines left out
RECURSIVE Lines(_)
Lines(str) ==
    IF str = <<>> THEN <<>>
    ELSE LET k == LineEnd(str, 1)
             line == SubSeq(str, 1, k - 1)
         IN  (IF strip(line) = <<>> THEN <<>> ELSE <<line>>)
               \o Lines(SubSeq(str, k + 1, Len(str)))

\* the kind of record the protocol answers a command line with
ReplyKind(line) ==
    LET word == strip(line)
    IN  IF \E i \in DOMAIN word : word[i] \in Whitespace THEN "help"
        ELSE CASE IsStopText(word) -> "response"
               [] upper(word) = CMD_RESUME -> "response"
               [] upper(word) = CMD_STATUS -> "status"
               [] upper(word) = CMD_LOG -> "log"
               [] OTHER -> "help"

\* C23 as stated: when the handler is about to answer received data, the data
\* held exactly one command line and the answer is the record of that line's
\* command, that is, one response per line however the lines arrive.
C23_OneResponsePerLine ==
    hpc = "send" =>
        [k \in DOMAIN Lines(rx) |-> ReplyKind(Lines(rx)[k])] = <<response.type>>

\* the same for data that holds one line: the part of C23 that holds
OneResponsePerChunkOfOneLine ==
    (hpc = "send" /\ Len(Lines(rx)) = 1) =>
        ReplyKind(Lines(rx)[1]) = response.type

\* ---- event log and status push
\* no thread is between the append and the assignment of _log
LogAtRest == trims = NoTrims

\* C24 as stated: whenever no thread is inside _log, the log holds at most
\* LOG_CAP entries, they are the most recent events in the order they were
\* appended, none missing, and the logs endpoint returns the last 50 of them.
C24_BoundedLog ==
    LogAtRest =>
        /\ Len(log_history) <= LogCap
        /\ log_history = arrival
        /\ api_logs(log_history) = LastN(arrival, LOGS_PAGE)

\* the part of C24 that no interleaving touches: the bound, and the page of
\* the logs endpoint being the tail of the log
LogBoundAndPage ==
    LogAtRest =>
        /\ Len(log_history) <= LogCap
        /\ api_logs(log_history) = LastN(log_history, LOGS_PAGE)

\* what C25 asks of the step that ends a broadcast
PushComplete ==
    /\ \A c \in audience : c \in pushed \cup Range(dead)
    /\ \A c \in Range(dead) : c \notin Range(clients')
    /\ \A c \in (pushed \cap Range(clients)) \ Range(dead) : c \in Range(clients')

\* C25 as stated: when a broadcast ends, every client that was connected when
\* it began and has not left since was sent the record or had its send fail;
\* the clients whose send failed are no longer in the client list and those
\* whose send succeeded still are.
C25_StatusPush ==
    [][(mpc = "push" /\ mpc' = "loop") => PushComplete]_vars

\* the same for a broadcast during which no client connected or left
PushCompleteWhenUndisturbed ==
    [][(mpc = "push" /\ mpc' = "loop" /\ ~churned) => PushComplete]_vars

\* ---- stop and zone flags
\* C37: stop_event is monotone.  No step of the supervisor, of a worker or of
\* the socket channel (the RESUME command included) takes stop_event from set
\* to unset.
C37_StopIsMonotone ==
    [][stop_event => stop_event']_vars

\* C37 witness: a RESUME command has been processed after a STOP command was
\* answered, and stop_event is set
C37_Witness ==
    /\ stop_event
    /\ hpc = "send"
    /\ upper(strip(rx)) = CMD_RESUME
    /\ sent.result = STOP_RESULT

\* C38: zone-defined is monotone.  No step takes the defined flag of the zone
\* or the workspace_defined cell from set to unset, whatever the frames show.
C38_ZoneDefinedIsMonotone ==
    [][/\ is_workspace_defined => is_workspace_defined'
       /\ cells.workspace_defined = 1 => cells'.workspace_defined = 1]_vars

\* C38 witness: a frame without any marker has been processed after the zone
\* was defined, and both flags are still set
C38_Witness ==
    /\ ~simulate
    /\ vpc = "w_dist"
    /\ cells.aruco_count = 0
    /\ is_workspace_defined
    /\ cells.workspace_defined = 1

\* ---- resume
\* the cells show no hand, or a distance at or above the clear threshold
ClearCells ==
    cells.hand_detected = 0 \/ cells.hand_distance >= SAFETY_CLEAR_DISTANCE_M

\* the Motion Worker is blocked in the safety wait, marked paused
PausedInWait ==
    /\ rpc \in GatePhases
    /\ gpc \in {"wait", "wait_dist"}
    /\ cells.robot_paused = 1

\* the gated motion has been issued and the worker is no longer marked paused
GatedIssued == gpc = "moving" /\ GatedInFlight /\ cells.robot_paused = 0

\* C31: resume liveness.  When the Motion Worker is paused in the safety wait
\* and from then on the cells always show no hand or a distance of at least
\* the clear threshold, and stop_event is never set, the gated motion is
\* eventually issued with robot_paused back at 0.
C31_ResumeLiveness ==
    []((PausedInWait /\ []ClearCells /\ []~stop_event) => <>GatedIssued)

\* C31 witness: a gated motion issued after a pause whose wait saw the cells
\* clear, no stop requested
C31_Witness ==
    /\ GatedIssued
    /\ wasPaused /\ clearSeen
    /\ ClearCells
    /\ cells.hand_detected = 1
    /\ ~stop_event

\* C32: camera-ready ordering.  While camera_ready is not set, no step of the
\* Motion Worker issues a motion primitive or writes robot_paused or
\* current_progress: the worker is not started or blocked in
\* camera_ready.wait(), nothing is at the motion driver, and the two cells keep
\* their values in every step but a Status Worker command.
WaitingForCamera == rpc \in {"not_started", "wait_camera"}
C32_CameraReadyOrdering ==
    /\ [](~camera_ready => (WaitingForCamera \/ rpc = "terminated") /\ motion = NoMotion)
    /\ [][~camera_ready /\ RobotNext
           => /\ motion' = motion
              /\ cells'.robot_paused = cells.robot_paused
              /\ cells'.current_progress = cells.current_progress]_vars
    /\ [][~camera_ready /\ rpc' # rpc => rpc' \in {"wait_camera", "terminated"}]_vars

\* main has given up its 30 s wait and started the Motion Worker, which is
\* held in camera_ready.wait() while the Perception Worker is still warming up
C32_Witness ==
    /\ ~camera_ready
    /\ rpc = "wait_camera"
    /\ spc \notin {"start_vision", "wait_camera", "start_robot"}
    /\ vpc = "warmup"
    /\ warm > 0
    /\ motion = NoMotion
    /\ ~stop_event

\* ---- options
\* a step of the Motion Worker that issues a gated motion
IssuesGated == gpc = "safe" /\ gpc' = "moving" /\ motion'.gated

Scaled(vel) == (vel * SLOWDOWN_TENTHS) \div 10

\* the gate: the decision taken on the two reads is check_safety of them, and
\* a worker that has decided "safe" issues the motion as its next step
GateIgnoresSlowdown ==
    /\ [][(gpc \in {"loop", "check_dist"} /\ gpc' \in {"safe", "unsafe"})
             => (gpc' = "safe") = check_safety(rdHd', rdDist')]_vars
    /\ [][(gpc = "safe" /\ gpc' # gpc /\ rpc' # "terminated") => IssuesGated]_vars

\* C33: velocity scaling.  A gated motion is issued with the velocity scaled
\* by 0.7 exactly when slowdown is enabled for the session and is_slowdown
\* reads 1 at the time of issue, and with the unscaled velocity otherwise; and
\* the slowdown flag has no part in whether the motion is issued.
C33_VelocityScaling ==
    /\ [][IssuesGated =>
             motion'.vel = IF main_SLOWDOWN_ENABLED /\ cells.is_slowdown = 1
                           THEN Scaled(GatedVel) ELSE GatedVel]_vars
    /\ GateIgnoresSlowdown

\* What holds in every session: the scaling follows the flag the worker sees,
\* which is the module default.
VelocityScalingByWorkerFlag ==
    /\ [][IssuesGated =>
             motion'.vel = IF SLOWDOWN_ENABLED /\ cells.is_slowdown = 1
                           THEN Scaled(GatedVel) ELSE GatedVel]_vars
    /\ GateIgnoresSlowdown
    /\ [][(IssuesGated /\ ~main_SLOWDOWN_ENABLED)
             => (motion'.vel = Scaled(GatedVel)) = (cells.is_slowdown = 1)]_vars

\* the markers of a frame that carry the identity id, and their centroids
OfIdentity(frame, id) == SelectSeq(frame, LAMBDA m : m.id = id)
Centroids(ms) == [k \in DOMAIN ms |-> ms[k].center]

\* the step of vision_process that takes a frame through workspace.update and
\* publishes aruco_count and workspace_defined
FrameStep == vpc = "loop" /\ vpc' = "w_dist" /\ ~simulate

\* the zone commit of a frame step, for markers of the identity id
CommitsFor(id) ==
    LET own == OfIdentity(detections', id)
    IN  /\ cells'.aruco_count = Len(own)
        /\ Len(own) = 4 =>
              /\ is_workspace_defined'
              /\ cells'.workspace_defined = 1
              /\ workspace_corners' = _sort_corners_clockwise(Centroids(own))

\* C34: zone commit.  A frame whose detections hold exactly four markers of
\* the identity configured for the session, whatever other markers it holds,
\* leaves the zone defined with the sorted centroids of those four as its
\* polygon; and the published marker count is the number of markers of the
\* configured identity in that frame.
C34_ZoneCommit == [][FrameStep => CommitsFor(main_ARUCO_MARKER_ID)]_vars

\* What holds in every session: the commit follows the identity the worker
\* sees, which is the module default.
ZoneCommitByWorkerIdentity == [][FrameStep => CommitsFor(ARUCO_MARKER_ID)]_vars

\* ---- torn reads
\* The complete (hand_detected, hand_distance) pairs of the frames a read can
\* meet: the frame that last wrote hand_distance (at the start, the values
\* the cells are created with), and the frame that has written hand_detected
\* and not yet hand_distance, if there is one.
FramePairs ==
    {<<frame_hd, cells.hand_distance>>}
        \cup (IF vpc = "w_dist"
              THEN {<<cells.hand_detected,
                      IF HandFound THEN min_distance ELSE NO_HAND_DISTANCE>>}
              ELSE {})

\* the steps in which check_safety() and the clear test get their result
GateDecides == gpc \in {"loop", "check_dist"} /\ gpc' \in {"safe", "unsafe"}
WaitDecides ==
    \/ gpc = "wait" /\ ~stop_event /\ gpc' = "loop"
    \/ gpc = "wait_dist" /\ gpc' \in {"loop", "wait"}

\* C35: torn reads cannot fabricate a gate decision.  Whatever the
\* interleaving of the two reads of the Motion Worker with the two writes of
\* the Perception Worker, each result of check_safety() and each result of the
\* clear test of the safety wait is the result on the complete pair of one
\* frame: the last frame written in full when the result is taken, or the
\* frame being written then.
C35_TornReads ==
    /\ [][GateDecides => \E p \in FramePairs :
                            (gpc' = "safe") = check_safety(p[1], p[2])]_vars
    /\ [][WaitDecides => \E p \in FramePairs :
                            (gpc' = "loop") = wait_clear_test(p[1], p[2])]_vars

\* a gate has decided "safe" on a torn pair: hand_detected = 1 read from a
\* frame with a hand inside the danger distance, which is still being
\* written, and the distance of the frame before it, which found no hand
C35_Witness ==
    /\ gpc = "safe"
    /\ rdHd = 1
    /\ rdDist = NO_HAND_DISTANCE
    /\ vpc = "w_dist"
    /\ min_distance < SAFETY_DISTANCE_M
    /\ frame_hd = 0

\* ---- stop during a pause
\* stop_event is set and the Motion Worker is in wait_safety_clear / wait_clear
StoppedInWait == stop_event /\ rpc \in GatePhases /\ gpc \in {"wait", "wait_dist"}

\* C36: stop during a pause.  Once stop_event is set while the Motion Worker
\* is in the safety wait, no gated motion is issued any more and robot_paused
\* stays 1 for the rest of the session; the gated move that was waiting
\* returns False, which ends the trajectory loop without a further segment;
\* and with stop_event set no segment is started: current_progress keeps its
\* value and no gated trajectory move is entered.
C36_StopDuringPause ==
    /\ [](StoppedInWait => [](/\ ~GatedInFlight
                              /\ gpc \notin {"check_dist", "safe", "unsafe", "moving"}
                              /\ cells.robot_paused = 1))
    /\ [][(/\ stop_event /\ rpc = "draw_gate" /\ gpc \in {"wait", "wait_dist", "loop"}
           /\ rpc' \notin {rpc, "terminated"})
             => rpc' = AfterTry /\ ri' = ri]_vars
    /\ [][stop_event => /\ cells'.current_progress = cells.current_progress
                        /\ rpc' = "draw_gate" => rpc = "draw_gate"]_vars

\* the worker has left its trajectory for the return home, still marked
\* paused, with the stop requested, segments left to draw, and cells that
\* would have ended the wait
C36_Witness ==
    /\ ~simulate
    /\ rpc = "return_moving"
    /\ stop_event
    /\ cells.robot_paused = 1
    /\ ri < total
    /\ ClearCells
    /\ ~faulted

\* ---- end of the session
\* the Motion Worker has drawn its whole trajectory and exited
TrajectoryDone == rpc = "exited" /\ ri = total /\ ~faulted

SessionOver == spc = "done" /\ stop_event /\ NoWorkerAlive

\* C39: the session ends with the trajectory.  The supervision loop, finding
\* the Motion Worker not alive, sets stop_event and leaves for the finally
\* block; and once the Motion Worker has completed its trajectory and exited,
\* the session eventually is over: stop_event set, main past its finally loop,
\* no worker alive.
C39_SessionEndsWithTrajectory ==
    /\ [][(spc = "supervise" /\ ~stop_event /\ ~Alive(rpc) /\ spc' # spc)
             => stop_event' /\ spc' = "finally"]_vars
    /\ (TrajectoryDone ~> SessionOver)

\* the session is over after a complete trajectory; the Perception Worker and
\* the Status Worker have ended on the stop request
C39_Witness ==
    /\ SessionOver
    /\ TrajectoryDone
    /\ cells.current_progress = 100
    /\ vpc = "exited"
    /\ mpc = "exited"

====
